---------------------------- MODULE Spec2Model ----------------------------
(***************************************************************************)
(* FlashMob: the AI card generation path and the deck title.              *)
(*                                                                         *)
(*   flashmob-server/server.js     parseGeminiResponse and the handler of  *)
(*                                 POST /generate_questions                *)
(*   flashmob-app/.../AiService.jsx   generateAICards, the client side     *)
(*   flashmob-app/.../DeckEditor.jsx  the title of the deck while edited   *)
(*                                                                         *)
(* A text is a sequence of one-character strings.  The characters drawn by *)
(* the model are the two markers' letters in both cases, the colon, the    *)
(* blank, the newline and two letters of content.                          *)
(***************************************************************************)
EXTENDS Integers, Sequences, FiniteSets, TLC

(***************************************************************************)
(* Bounds of the model.                                                    *)
(***************************************************************************)
MaxBlocks == 3      \* blocks of a text handed to the parser
MaxReq == 2         \* invocations of the generation path in one behaviour
MaxRaw == 5         \* characters of a raw text handed to the parser
MaxAgain == 2       \* blocks of a text that is parsed a second time

NL == "\n"
SP == " "

\* \s of the regular expressions, over the model's characters
Whitespace == {SP, NL}
\* Q: and A: under the i flag
QMark == {"Q", "q"}
AMark == {"A", "a"}

Min(S) == CHOOSE x \in S : \A y \in S : x <= y
Max(S) == CHOOSE x \in S : \A y \in S : x >= y

(***************************************************************************)
(* String.prototype.trim                                                   *)
(***************************************************************************)
Trim(s) ==
    LET keep == {i \in 1..Len(s) : s[i] \notin Whitespace}
    IN  IF keep = {} THEN <<>> ELSE SubSeq(s, Min(keep), Max(keep))

\* the first position >= i of t that holds no whitespace, Len(t)+1 if none
SkipWs(t, i) ==
    Min({j \in i..Len(t) : t[j] \notin Whitespace} \cup {Len(t) + 1})

\* t holds the marker m (a letter, then a colon) at position i
MarkerAt(t, i, m) == i >= 1 /\ i + 1 <= Len(t) /\ t[i] \in m /\ t[i + 1] = ":"

HasNL(t, i, j) == \E k \in i..(j - 1) : t[k] = NL

(***************************************************************************)
(* The primary regular expression,                                        *)
(*   /Q:\s*(.*?)\s*\n\s*A:\s*(.*?)(?=\n\s*Q:|$)/gis                        *)
(* by its pieces.  With the s flag the dot matches every character.        *)
(***************************************************************************)
\* \s*\n\s*A: matches at e: a run of whitespace holding a newline, then A:
AnswerMarkerFollows(t, e) ==
    LET f == SkipWs(t, e) IN HasNL(t, e, f) /\ MarkerAt(t, f, AMark)

\* the lookahead without its first alternative: (?=$)
AnswerEndsAtEndOnly(t, e) == e = Len(t) + 1

\* (?=\n\s*Q:|$) holds at e
AnswerEndsAt(t, e) ==
    \/ e = Len(t) + 1
    \/ e <= Len(t) /\ t[e] = NL /\ MarkerAt(t, SkipWs(t, e + 1), QMark)

NoMatch == [ok |-> FALSE, q |-> <<>>, a |-> <<>>, end |-> 0]

\* the rest of a match once A: is found at f: \s*(.*?)(?=...)
MatchAnswer(t, g1, f) ==
    LET c2 == SkipWs(t, f + 2)
        e2 == Min({e \in c2..(Len(t) + 1) : AnswerEndsAt(t, e)})
    IN  [ok |-> TRUE, q |-> g1, a |-> SubSeq(t, c2, e2 - 1), end |-> e2]

(***************************************************************************)
(* One attempt of the expression at position i, where Q: stands.  The     *)
(* greedy \s* after Q: takes the whole run of whitespace and the lazy      *)
(* group grows until \s*\n\s*A: follows; when no such end exists the       *)
(* greedy \s* gives back, which succeeds only with an empty group, a       *)
(* newline inside the run and A: right after it.                           *)
(***************************************************************************)
MatchAt(t, i) ==
    LET p1 == i + 2
        c  == SkipWs(t, p1)
        es == {e \in (c + 1)..Len(t) : AnswerMarkerFollows(t, e)}
    IN  IF es # {}
        THEN MatchAnswer(t, SubSeq(t, c, Min(es) - 1), SkipWs(t, Min(es)))
        ELSE IF MarkerAt(t, c, AMark) /\ HasNL(t, p1, c)
        THEN MatchAnswer(t, <<>>, c)
        ELSE NoMatch

\* regex.exec from lastIndex = from: the leftmost position that matches
ExecFrom(t, from) ==
    LET starts == {i \in from..Len(t) : MarkerAt(t, i, QMark) /\ MatchAt(t, i).ok}
    IN  IF starts = {} THEN NoMatch ELSE MatchAt(t, Min(starts))

\* cards.push without the test of question && answer
CardOfUnchecked(q, a) == <<[question |-> Trim(q), answer |-> Trim(a)]>>

\* a candidate pair becomes a card when both sides are non-empty once trimmed
CardOf(q, a) ==
    IF Trim(q) # <<>> /\ Trim(a) # <<>>
    THEN <<[question |-> Trim(q), answer |-> Trim(a)]>>
    ELSE <<>>

\* the while loop over regex.exec
RECURSIVE PrimaryScan(_, _)
PrimaryScan(t, from) ==
    LET m == ExecFrom(t, from)
    IN  IF ~m.ok THEN <<>>
        ELSE CardOf(m.q, m.a) \o PrimaryScan(t, m.end)

(***************************************************************************)
(* The fallback: textResponse.split(/\n\s*\n/).filter(Boolean), then per   *)
(* piece /Q:\s*(.*?)(?:\n|$)/i and /A:\s*(.*?)(?:\n|$)/i.                  *)
(***************************************************************************)
\* \n\s*\n matches at i
SeparatorAt(t, i) == i <= Len(t) /\ t[i] = NL /\ HasNL(t, i + 1, SkipWs(t, i + 1))

\* the last position of the separator that starts at i (\s* is greedy)
SeparatorEnd(t, i) ==
    Max({k \in (i + 1)..(SkipWs(t, i + 1) - 1) : t[k] = NL})

RECURSIVE SplitFrom(_, _)
SplitFrom(t, from) ==
    LET seps == {i \in from..Len(t) : SeparatorAt(t, i)}
    IN  IF seps = {} THEN <<SubSeq(t, from, Len(t))>>
        ELSE <<SubSeq(t, from, Min(seps) - 1)>>
                 \o SplitFrom(t, SeparatorEnd(t, Min(seps)) + 1)

\* .filter(Boolean): the empty pieces go
FilterBoolean(ps) == SelectSeq(ps, LAMBDA p : p # <<>>)

NoField == [found |-> FALSE, content |-> <<>>]

\* pair.match(/M:\s*(.*?)(?:\n|$)/i): without the s flag the dot stops at a newline
FieldMatch(pair, m) ==
    LET starts == {i \in 1..Len(pair) : MarkerAt(pair, i, m)}
    IN  IF starts = {} THEN NoField
        ELSE LET c == SkipWs(pair, Min(starts) + 2)
                 e == Min({k \in c..Len(pair) : pair[k] = NL} \cup {Len(pair) + 1})
             IN  [found |-> TRUE, content |-> SubSeq(pair, c, e - 1)]

\* what one piece adds to cards
FallbackPair(pair) ==
    LET qMatch == FieldMatch(pair, QMark)
        aMatch == FieldMatch(pair, AMark)
    IN  IF qMatch.found /\ aMatch.found
        THEN CardOf(qMatch.content, aMatch.content)
        ELSE <<>>

RECURSIVE FallbackScan(_)
FallbackScan(pairs) ==
    IF pairs = <<>> THEN <<>>
    ELSE FallbackPair(Head(pairs)) \o FallbackScan(Tail(pairs))

\* cards declared at the level of the module: the array of the call before
NewCardsKept(left) == left

\* const cards = [] in the body of the function: each call starts from a new
\* array, whatever the call before left in its own
NewCards(left) == <<>>

\* the fallback without its condition
FallbackRunsAlways(cards) == TRUE

\* the condition turned around: no fallback after an empty scan
FallbackRunsNever(cards) == Len(cards) > 0

\* if (cards.length === 0)
FallbackRuns(cards) == Len(cards) = 0

(***************************************************************************)
(* One call of parseGeminiResponse, left being the array of the call       *)
(* before: cards after the while loop, whether the fallback ran (its       *)
(* console.log), and the array returned.                                   *)
(***************************************************************************)
ParseCall(left, textResponse) ==
    LET primary == NewCards(left) \o PrimaryScan(textResponse, 1)
        fallback == FallbackRuns(primary)
    IN  [primary |-> primary,
         fallback |-> fallback,
         cards |-> IF fallback
                   THEN primary \o FallbackScan(FilterBoolean(SplitFrom(textResponse, 1)))
                   ELSE primary]

parseGeminiResponse(textResponse) == ParseCall(<<>>, textResponse).cards


(***************************************************************************)
(* The state.                                                              *)
(*   apiKey         GEMINI_API_KEY is set in the server's environment      *)
(*   srv[i]         the server's handling of request i                     *)
(*   cli[i]         the client's invocation i of generateAICards           *)
(*   blocks, sep, textResponse, formattedCards, parseDone                  *)
(*                  one call of parseGeminiResponse on a text built from   *)
(*                  blocks                                                 *)
(*   primaryCards, fallbackRan                                             *)
(*                  of that call: cards after the while loop, and whether  *)
(*                  the fallback ran                                       *)
(*   leftCards      the array cards as the last call of the parser left it *)
(*   otherDone      another text was parsed after textResponse             *)
(*   againCards, againDone                                                 *)
(*                  a second call of the parser on textResponse            *)
(*   store          the deck document in the store                         *)
(*   deck, editDeckTitle, isEditingDeckTitle                               *)
(*                  state of the DeckEditor component                      *)
(*   effect         the running instance of the effect that loads the deck *)
(*   updating       updateDeckTitle awaits updateDoc                       *)
(*   errorMessage, successMessage                                          *)
(*                  the two messages of the DeckEditor component           *)
(*   currentUserId  the uid DeckEditor got from onAuthStateChanged         *)
(*   cardDocs, nextId                                                      *)
(*                  the documents of the cards collection of the store,    *)
(*                  and the next automatic document id                     *)
(*   ops            the promises DeckEditor awaits: reads and writes of    *)
(*                  the store and requests to the generation endpoint      *)
(*   aiGeneratedCards, form                                                *)
(*                  the preview of generated cards and the other inputs    *)
(*                  and flags of DeckEditor                                *)
(*   deckList, deleting                                                    *)
(*                  the DeckList component and its handleDeleteDeck        *)
(*   pdf            the export of a deck to PDF                            *)
(*   study          the StudyMode component                                *)
(***************************************************************************)
VARIABLES apiKey, srv, cli, blocks, sep, textResponse, formattedCards, parseDone,
          primaryCards, fallbackRan, leftCards, otherDone, againCards, againDone,
          store, deck, editDeckTitle, isEditingDeckTitle, effect, updating,
          errorMessage, successMessage,
          currentUserId, cardDocs, nextId, ops, aiGeneratedCards, form,
          deckList, deleting, pdf, study

handlerVars == <<apiKey, srv, cli>>
parserVars ==
    <<blocks, sep, textResponse, formattedCards, parseDone,
      primaryCards, fallbackRan, leftCards, otherDone, againCards, againDone>>
deckVars ==
    <<store, deck, editDeckTitle, isEditingDeckTitle, effect, updating,
      errorMessage, successMessage>>
editorVars == <<currentUserId, cardDocs, nextId, ops, aiGeneratedCards, form>>
appVars == <<editorVars, deckList, deleting, pdf, study>>
vars == <<handlerVars, parserVars, deckVars, appVars>>

Reqs == 1..MaxReq

(***************************************************************************)
(* Values of req.body.text.  Of a string the handler reads its truthiness, *)
(* its length and slice; the client reads whether it trims to empty.       *)
(***************************************************************************)
MAX_TEXT_LENGTH == 10000
DEFAULT_NUM_QUESTIONS == 5

Undefined == [type |-> "undefined"]
Num(n) == [type |-> "number", value |-> n]
Str(n, b) == [type |-> "string", length |-> n, blank |-> b]

\* the strings: empty, blank, short, at the limit, past the limit
StringValues ==
    {Str(0, TRUE), Str(3, TRUE), Str(3, FALSE),
     Str(MAX_TEXT_LENGTH, FALSE), Str(MAX_TEXT_LENGTH + 1, FALSE)}
\* what the textarea of the client hands to generateAICards
PromptValues == StringValues \ {Str(MAX_TEXT_LENGTH, FALSE)}
\* a text that is no string: it has neither length nor slice
TextValues == {Undefined, Num(7)} \cup StringValues
\* bodies of a request: the short text with a count and with the count 0,
\* each other text without num_questions
Bodies ==
    {[text |-> t, num_questions |-> Undefined] : t \in TextValues \ {Str(3, FALSE)}}
        \cup {[text |-> Str(3, FALSE), num_questions |-> Num(3)],
              [text |-> Str(3, FALSE), num_questions |-> Num(0)]}

\* !text
Falsy(text) ==
    \/ text.type = "undefined"
    \/ text.type = "string" /\ text.length = 0

\* the comparison written >= instead of >
TooLargeAtLimit(text) == text.type = "string" /\ text.length >= MAX_TEXT_LENGTH

\* text.length > 10000; the length of a number is undefined and compares false
TooLarge(text) == text.type = "string" /\ text.length > MAX_TEXT_LENGTH

\* textPrompt.trim() is the empty string
TrimsToEmpty(text) == text.type = "string" /\ text.blank

(***************************************************************************)
(* What the external service may answer with: response.text().            *)
(***************************************************************************)
ReplyEmpty == <<>>
ReplyProse == <<"x", " ", "y">>
ReplyTwoPairs ==
    <<"Q", ":", " ", "x", NL, "A", ":", " ", "y", NL, NL,
      "Q", ":", " ", "y", NL, "A", ":", " ", "x">>
\* only the fallback reads this one: the answer line comes first
ReplyAnswerFirst == <<"A", ":", " ", "y", NL, "Q", ":", " ", "x">>

ReplyTexts == {ReplyEmpty, ReplyProse, ReplyTwoPairs, ReplyAnswerFirst}

(***************************************************************************)
(* The handler of POST /generate_questions.                                *)
(***************************************************************************)
MSG_UNAVAILABLE == "Server configuration error: AI Service not available"
MSG_MISSING == "Missing 'text' in request body"
MSG_TOO_LARGE == "Input text is too large. Please limit to 10,000 characters."
MSG_PARSE == "Could not parse Q&A pairs from the generated text. The AI might not have followed the format. Please try again or adjust the input text."
MSG_UNEXPECTED == "An unexpected error occurred while generating questions."

\* res.status(s).json({ error })
ErrorResponse(s, msg) == [status |-> s, error |-> msg]
\* res.json({ generated_cards })
CardsResponse(cards) == [status |-> 200, generated_cards |-> cards]

\* const { text, num_questions = 5 } = req.body, as the prompt carries them
PromptOf(body) ==
    [text |-> body.text,
     num_questions |-> IF body.num_questions = Undefined
                       THEN Num(DEFAULT_NUM_QUESTIONS) ELSE body.num_questions]

\* the handler with the check of text moved before the check of the key
HandlerEntryTextFirst(key, body) ==
    IF Falsy(body.text)
    THEN [responses |-> <<ErrorResponse(400, MSG_MISSING)>>, sent |-> <<>>]
    ELSE IF TooLarge(body.text)
    THEN [responses |-> <<ErrorResponse(400, MSG_TOO_LARGE)>>, sent |-> <<>>]
    ELSE IF ~key
    THEN [responses |-> <<ErrorResponse(503, MSG_UNAVAILABLE)>>, sent |-> <<>>]
    ELSE IF body.text.type # "string"
    THEN [responses |-> <<ErrorResponse(500, MSG_UNEXPECTED)>>, sent |-> <<>>]
    ELSE [responses |-> <<>>, sent |-> <<PromptOf(body)>>]

(***************************************************************************)
(* The handler up to its await: the responses it sends at once and the     *)
(* prompts it hands to model.generateContent.  text.slice of a value that  *)
(* is no string throws inside the try and is caught.                       *)
(***************************************************************************)
HandlerEntry(key, body) ==
    IF ~key
    THEN [responses |-> <<ErrorResponse(503, MSG_UNAVAILABLE)>>, sent |-> <<>>]
    ELSE IF Falsy(body.text)
    THEN [responses |-> <<ErrorResponse(400, MSG_MISSING)>>, sent |-> <<>>]
    ELSE IF TooLarge(body.text)
    THEN [responses |-> <<ErrorResponse(400, MSG_TOO_LARGE)>>, sent |-> <<>>]
    ELSE IF body.text.type # "string"
    THEN [responses |-> <<ErrorResponse(500, MSG_UNEXPECTED)>>, sent |-> <<>>]
    ELSE [responses |-> <<>>, sent |-> <<PromptOf(body)>>]

\* the handler without its check of formattedCards.length
HandlerOnTextNoCheck(reply) == <<CardsResponse(parseGeminiResponse(reply))>>

\* the handler without the return in front of its 500: res.json runs as well
HandlerOnTextNoReturn(reply) ==
    LET formatted == parseGeminiResponse(reply)
    IN  IF Len(formatted) = 0
        THEN <<ErrorResponse(500, MSG_PARSE), CardsResponse(formatted)>>
        ELSE <<CardsResponse(formatted)>>

\* the parser's array declared at the level of the module: the cards of the
\* requests answered before are still in it
HandlerOnTextSharedCards(reply) ==
    LET answered == {j \in Reqs : /\ srv[j].responses # <<>>
                                  /\ srv[j].responses[1].status = 200}
        shared == IF answered = {} THEN <<>>
                  ELSE srv[Min(answered)].responses[1].generated_cards
    IN  <<CardsResponse(shared \o parseGeminiResponse(reply))>>

\* after the await, with the text of the reply
HandlerOnText(reply) ==
    LET formatted == parseGeminiResponse(reply)
    IN  IF Len(formatted) = 0
        THEN <<ErrorResponse(500, MSG_PARSE)>>
        ELSE <<CardsResponse(formatted)>>

\* a catch block that calls generateContent again
HandlerOnErrorRetry(r) == [r EXCEPT !.sent = @ \o <<PromptOf(r.body)>>]

\* the catch block: generateContent rejected, or response.text() threw
HandlerOnError(r) ==
    [r EXCEPT !.pc = "done",
              !.responses = @ \o <<ErrorResponse(500, MSG_UNEXPECTED)>>]

NoReply == [given |-> FALSE]
IdleRequest ==
    [pc |-> "idle", body |-> [text |-> Undefined, num_questions |-> Undefined],
     sent |-> <<>>, responses |-> <<>>, reply |-> NoReply]

(***************************************************************************)
(* generateAICards of AiService.jsx.                                       *)
(***************************************************************************)
MSG_ENTER_TEXT == "Please enter text to generate questions from"
MSG_INVALID_FORMAT == "Invalid response format from AI server"
MSG_NO_CARDS == "AI processing complete, but no cards were generated. Try adjusting your input text."
MSG_GENERATED == "Generated cards. Review below."
MSG_FAILED == "Failed to generate questions. Please try again."
MSG_TIMED_OUT == "The request to generate questions timed out. Please try again later."

NoError == [name |-> "", message |-> ""]
JsError(msg) == [name |-> "Error", message |-> msg]
\* what AbortSignal.timeout aborts the fetch with
TimeoutError == [name |-> "TimeoutError", message |-> "signal timed out"]
\* what fetch rejects with when the network fails
NetworkError == [name |-> "TypeError", message |-> "Failed to fetch"]

IdleClient ==
    [pc |-> "idle", textPrompt |-> Undefined, isLoading |-> FALSE,
     aiGeneratedCards |-> <<>>, successMessage |-> "", errorMessage |-> "",
     error |-> NoError]

StatusText(s) ==
    CASE s = 400 -> "400" [] s = 500 -> "500" [] s = 502 -> "502"
      [] s = 503 -> "503" [] OTHER -> "?"

\* a reply of the hosting's gateway, which is no JSON
GatewayResponse == [status |-> 502, html |-> TRUE]

\* the catch block testing for the name of a manual abort
ClientCatchAbortError(c, error) ==
    LET userFriendlyError ==
            IF error.name = "AbortError" THEN MSG_TIMED_OUT
            ELSE IF error.message # "" THEN error.message
            ELSE MSG_FAILED
    IN  [c EXCEPT !.pc = "done", !.error = error,
                  !.errorMessage = userFriendlyError, !.isLoading = FALSE]

\* catch (error) { ... } finally { setIsLoading(false) }
ClientCatch(c, error) ==
    LET userFriendlyError ==
            IF error.name = "TimeoutError" THEN MSG_TIMED_OUT
            ELSE IF error.message # "" THEN error.message
            ELSE MSG_FAILED
    IN  [c EXCEPT !.pc = "done", !.error = error,
                  !.errorMessage = userFriendlyError, !.isLoading = FALSE]

\* the body of try once fetch has resolved with response
ClientOnResponse(c, response) ==
    IF response.status # 200
    THEN LET errorMsg ==
                 IF "error" \in DOMAIN response /\ response.error # ""
                 THEN response.error
                 ELSE "AI Service Error: " \o StatusText(response.status)
         IN  ClientCatch(c, JsError(errorMsg))
    ELSE IF "generated_cards" \in DOMAIN response
    THEN [c EXCEPT !.pc = "done", !.isLoading = FALSE,
                   !.aiGeneratedCards = response.generated_cards,
                   !.successMessage =
                       IF Len(response.generated_cards) = 0
                       THEN MSG_NO_CARDS ELSE MSG_GENERATED]
    ELSE ClientCatch(c, JsError(MSG_INVALID_FORMAT))

(***************************************************************************)
(* The title of the deck in DeckEditor.jsx, with the deck's owner signed   *)
(* in.  A title is a string; the input may hold a blank one or one with a  *)
(* blank at its end.                                                       *)
(***************************************************************************)
Titles == {"a", "b"}
InputValues == Titles \cup {" ", "a "}

\* editDeckTitle.trim()
TrimTitle(s) == CASE s = " " -> "" [] s = "a " -> "a" [] OTHER -> s

\* useState(null), and a snapshot whose exists() is false
NoDeck == [exists |-> FALSE]
OwnerId == "u1"
DeckData(title) ==
    [exists |-> TRUE, title |-> title, ownerId |-> OwnerId, collaborators |-> {}]
StoreValues == {NoDeck} \cup {DeckData(t) : t \in Titles}

MSG_DECK_NOT_FOUND == "Deck not found or you may not have access."
MSG_DECK_REVOKED == "Deck not found, or access may have been revoked."
MSG_TITLE_OWNER == "Only the deck owner can change the title."
MSG_TITLE_EMPTY == "Deck title cannot be empty."
MSG_TITLE_UPDATED == "Deck title updated successfully."
MSG_TITLE_FAILED == "Failed to update deck title. Please try again."

\* useState(null) of currentUserId: no user is signed in
NoUser == ""
OtherId == "u2"

\* a deck whose document carries no ownerId has no owner
isOwnerAnyUser == deck.exists /\ currentUserId # NoUser

\* const isOwner = deck && currentUserId && deck.ownerId === currentUserId
isOwner == deck.exists /\ currentUserId # NoUser /\ deck.ownerId = currentUserId

\* one run of the effect: fetchDeckData() is called and awaits getDoc, and
\* the listener of the deck closes over the isEditingDeckTitle of its render
\* and the callbacks of the two listeners close over its errorMessage too
RunEffect(editing, message) ==
    [fetching |-> TRUE, isEditingDeckTitle |-> editing, errorMessage |-> message,
     cardsListening |-> TRUE, deckListening |-> TRUE]
NoEffect ==
    [fetching |-> FALSE, isEditingDeckTitle |-> FALSE, errorMessage |-> "",
     cardsListening |-> FALSE, deckListening |-> FALSE]


DeckIdle ==
    /\ store = NoDeck
    /\ deck = NoDeck
    /\ editDeckTitle = ""
    /\ isEditingDeckTitle = FALSE
    /\ effect = NoEffect
    /\ updating = FALSE
    /\ errorMessage = ""
    /\ successMessage = ""

(***************************************************************************)
(* DeckEditor.jsx beyond the title: the user that is signed in, the cards  *)
(* collection of the store, the promises in flight, the form.              *)
(***************************************************************************)
MaxOps == 2
MaxDocs == 3

DeckId == "d1"

\* user.email of a uid, null (here "") with nobody signed in
EmailOf(uid) ==
    CASE uid = OwnerId -> "u1@x.io" [] uid = OtherId -> "u2@x.io" [] OTHER -> ""

\* setCurrentUserEmail and setCurrentUserId are called together
currentUserEmail == EmailOf(currentUserId)

\* the email field of the documents of the users collection
RegisteredEmails == {EmailOf(OwnerId), EmailOf(OtherId), "u4@x.io"}

\* what the collaborator input may hold
EmailInputs == {"bad", " U2@x.io", "u3@x.io"}

\* collaboratorEmail.trim().toLowerCase()
NormalizeEmail(s) == CASE s = " U2@x.io" -> "u2@x.io" [] OTHER -> s

\* /^[^\s@]+@[^\s@]+\.[^\s@]+$/.test(email)
isValidEmail(email) == email \in {"u1@x.io", "u2@x.io", "u3@x.io", "u4@x.io"}

\* what the question, answer and prompt inputs may hold, and their trim()
CardInputs == {" ", "q "}
TrimInput(s) == CASE s = " " -> "" [] s = "q " -> "q" [] OTHER -> s

\* const [collaborators, setCollaborators] = useState([]), set with the deck
collaborators == IF deck.exists THEN deck.collaborators ELSE {}

\* a document of the cards collection
CardDoc(id, deckId, question, answer) ==
    [id |-> id, deckId |-> deckId, question |-> question, answer |-> answer]

\* the cards of a deck in the store
CardsOf(deckId) == {c \in cardDocs : c.deckId = deckId}

\* the generated cards the endpoint may answer with
GeneratedCards ==
    <<[question |-> "g1", answer |-> "h1"], [question |-> "g2", answer |-> "h2"]>>
Previews == {<<>>, SubSeq(GeneratedCards, 1, 1), GeneratedCards}

\* useState(null) of editCardId
NoCard == 0

IdleForm ==
    [question |-> "", answer |-> "", editCardId |-> NoCard, aiPrompt |-> "",
     collaboratorEmail |-> "", isLoading |-> FALSE, isAddingCollaborator |-> FALSE]


EditorIdle ==
    /\ cardDocs = {}
    /\ nextId = 1
    /\ ops = <<>>
    /\ aiGeneratedCards = <<>>
    /\ form = IdleForm

(***************************************************************************)
(* DeckList: the decks a user owns and those shared with the user, each    *)
(* from a listener of its own, and the deletion of a deck with its cards.  *)
(* delivered and failed tell which listeners have called back.             *)
(***************************************************************************)
IdleList ==
    [isLoading |-> TRUE, error |-> "", decks |-> {}, currentOwned |-> {},
     currentCollaborated |-> {}, firstLoad |-> TRUE, delivered |-> {}, failed |-> {}]

\* handleDeleteDeck is not running
NoDelete == [pc |-> "idle", deckId |-> "", cardIds |-> {}]


\* where("ownerId", "==", currentUser.uid)
OwnedDecks(uid) == IF store.exists /\ store.ownerId = uid THEN {DeckId} ELSE {}

\* where("collaborators", "array-contains", currentUser.email)
CollaboratedDecks(uid) ==
    IF store.exists /\ EmailOf(uid) \in store.collaborators THEN {DeckId} ELSE {}

\* const updateDecksState = (newData, type) => ..., on the state l
updateDecksState(l, newData, type) ==
    LET owned == IF type = "owned" THEN newData ELSE l.currentOwned
        collaborated == IF type = "collaborated" THEN newData
                        ELSE l.currentCollaborated
        combined == {[id |-> d, isOwner |-> TRUE] : d \in owned} \cup
                    {[id |-> d, isOwner |-> FALSE] : d \in collaborated \ owned}
        loaded == l.firstLoad /\ Cardinality(owned) >= 0
                              /\ Cardinality(collaborated) >= 0
    IN  [l EXCEPT !.currentOwned = owned, !.currentCollaborated = collaborated,
                  !.decks = combined,
                  !.isLoading = IF loaded THEN FALSE ELSE @,
                  !.firstLoad = IF loaded THEN FALSE ELSE @]
(***************************************************************************)
(* The export of a deck to PDF.  Lengths are in sevenths of a millimetre,  *)
(* in which cardFontSize / 3.5 is the integer 2 * cardFontSize.  Of a text *)
(* the layout reads the number of lines splitTextToSize makes of it.       *)
(***************************************************************************)
MaxCards == 9
MaxLines == 3

Seventh == 7
marginTop == 20 * Seventh
marginBottom == 20 * Seventh
\* doc.internal.pageSize.getHeight() of format a4
pageHeight == 297 * Seventh
cardFontSize == 11
cardSpacing == 8 * Seventh
lineSpacing == 1 * Seventh
textLineHeight == 2 * cardFontSize + lineSpacing
\* the 2 of currentY + 2 > pageHeight - marginBottom
separatorHeight == 2 * Seventh


\* handleExportPDF is not running
IdlePdf == [pc |-> "idle"]

\* currentY + textLineHeight > pageHeight - marginBottom
PageIsFull(y) == y + textLineHeight > pageHeight - marginBottom

\* addWrappedText on n lines, at the cursor and on the page of st: broke
\* tells whether it added a page
RECURSIVE addWrappedText(_, _)
addWrappedText(st, n) ==
    IF n = 0 THEN st
    ELSE LET y == IF PageIsFull(st.currentY) THEN marginTop ELSE st.currentY
         IN  addWrappedText(
                 [currentY |-> y + textLineHeight,
                  page |-> IF PageIsFull(st.currentY) THEN st.page + 1 ELSE st.page,
                  broke |-> st.broke \/ PageIsFull(st.currentY)],
                 n - 1)

\* if (linesAdded <= 1) currentY = Math.max(currentY, from + textLineHeight)
AdjustShortText(linesAdded, currentY, from) ==
    IF linesAdded <= 1 THEN Max({currentY, from + textLineHeight}) ELSE currentY
(***************************************************************************)
(* StudyMode: the cards of a deck, fetched once, are answered in order.    *)
(***************************************************************************)
MaxStudy == 4

\* the useState of StudyMode; fetchCards is awaited
IdleStudy ==
    [loading |-> TRUE, cards |-> <<>>, currentCardIndex |-> 0, showAnswer |-> FALSE,
     score |-> 0, answeredCards |-> <<>>]

\* querySnapshot.docs.map(...): the ids of the cards of a deck of n cards
CardsData(n) == [i \in 1..n |-> i]

\* cards.length > 0 && currentCardIndex < cards.length, below the loading
\* indicator: the card and its buttons are rendered
CardShown(st) ==
    ~st.loading /\ Len(st.cards) > 0 /\ st.currentCardIndex < Len(st.cards)

\* the other branch of the render: Study Session Completed
ScorecardShown(st) == ~st.loading /\ ~CardShown(st)

\* the index stays on the last card
handleAnswerStays(st, correct) ==
    [st EXCEPT
        !.score = IF correct THEN @ + 1 ELSE @,
        !.answeredCards =
            Append(@, [cardId |-> st.cards[st.currentCardIndex + 1],
                       correct |-> correct]),
        !.currentCardIndex =
            IF st.currentCardIndex < Len(st.cards) - 1 THEN @ + 1 ELSE @,
        !.showAnswer =
            IF st.currentCardIndex < Len(st.cards) - 1 THEN FALSE ELSE @]

\* const handleAnswer = (correct) => ..., on the state st of the render;
\* cards[currentCardIndex] of the code is the element currentCardIndex + 1
handleAnswer(st, correct) ==
    [st EXCEPT
        !.score = IF correct THEN @ + 1 ELSE @,
        !.answeredCards =
            Append(@, [cardId |-> st.cards[st.currentCardIndex + 1],
                       correct |-> correct]),
        !.currentCardIndex = @ + 1,
        !.showAnswer =
            IF st.currentCardIndex < Len(st.cards) - 1 THEN FALSE ELSE @]

OthersIdle ==
    /\ deckList = IdleList
    /\ deleting = NoDelete
    /\ pdf = IdlePdf
    /\ study = IdleStudy

AppIdle ==
    /\ currentUserId = NoUser
    /\ EditorIdle
    /\ OthersIdle

(***************************************************************************)
(* Init: nothing has been requested yet.                                   *)
(***************************************************************************)
ParserIdle ==
    /\ blocks = <<>>
    /\ sep = <<NL, NL>>
    /\ textResponse = <<>>
    /\ formattedCards = <<>>
    /\ parseDone = FALSE
    /\ primaryCards = <<>>
    /\ fallbackRan = FALSE
    /\ leftCards = <<>>
    /\ otherDone = FALSE
    /\ againCards = <<>>
    /\ againDone = FALSE

Init ==
    /\ apiKey \in BOOLEAN
    /\ srv = [i \in Reqs |-> IdleRequest]
    /\ cli = [i \in Reqs |-> IdleClient]
    /\ ParserIdle
    /\ DeckIdle
    /\ AppIdle

(***************************************************************************)
(* The actions.                                                            *)
(***************************************************************************)
\* some HTTP client posts body to /generate_questions
PostDirect(i, body) ==
    /\ srv[i].pc = "idle" /\ cli[i].pc = "idle"
    /\ srv' = [srv EXCEPT ![i] = [@ EXCEPT !.pc = "posted", !.body = body]]
    /\ UNCHANGED <<apiKey, cli, parserVars, deckVars, appVars>>

\* generateAICards(textPrompt, numQuestions, ...) up to its await of fetch
GenerateAICards(i, textPrompt, numQuestions) ==
    /\ srv[i].pc = "idle" /\ cli[i].pc = "idle"
    /\ LET c == [cli[i] EXCEPT !.textPrompt = textPrompt, !.isLoading = TRUE,
                               !.aiGeneratedCards = <<>>]
       IN  IF TrimsToEmpty(textPrompt)
           THEN /\ cli' = [cli EXCEPT ![i] = ClientCatch(c, JsError(MSG_ENTER_TEXT))]
                /\ srv' = srv
           ELSE /\ cli' = [cli EXCEPT ![i] = [c EXCEPT !.pc = "fetching"]]
                /\ srv' = [srv EXCEPT ![i] =
                              [@ EXCEPT !.pc = "posted",
                                        !.body = [text |-> textPrompt,
                                                  num_questions |-> numQuestions]]]
    /\ UNCHANGED <<apiKey, parserVars, deckVars, appVars>>

\* the handler runs up to its first await, or to its response
HandleRequest(i) ==
    /\ srv[i].pc = "posted"
    /\ LET h == HandlerEntry(apiKey, srv[i].body)
       IN  srv' = [srv EXCEPT ![i] =
                      [@ EXCEPT !.pc = IF h.sent = <<>> THEN "done" ELSE "awaiting",
                                !.sent = @ \o h.sent,
                                !.responses = @ \o h.responses]]
    /\ UNCHANGED <<apiKey, cli, parserVars, deckVars, appVars>>

\* the external service answers with a text
GeminiReplies(i, reply) ==
    /\ srv[i].pc = "awaiting"
    /\ srv' = [srv EXCEPT ![i] =
                  [@ EXCEPT !.pc = "done",
                            !.reply = [given |-> TRUE, text |-> reply],
                            !.responses = @ \o HandlerOnText(reply)]]
    /\ UNCHANGED <<apiKey, cli, parserVars, deckVars, appVars>>

\* the call fails, or the reply holds no text (blocked content)
GeminiFails(i) ==
    /\ srv[i].pc = "awaiting"
    /\ srv' = [srv EXCEPT ![i] = HandlerOnError(@)]
    /\ UNCHANGED <<apiKey, cli, parserVars, deckVars, appVars>>

\* the client's fetch resolves with the handler's response
FetchResolves(i) ==
    /\ cli[i].pc = "fetching"
    /\ srv[i].responses # <<>>
    /\ cli' = [cli EXCEPT ![i] = ClientOnResponse(@, srv[i].responses[1])]
    /\ UNCHANGED <<apiKey, srv, parserVars, deckVars, appVars>>

\* the host's gateway answers in the server's place
FetchGatewayError(i) ==
    /\ cli[i].pc = "fetching"
    /\ cli' = [cli EXCEPT ![i] = ClientOnResponse(@, GatewayResponse)]
    /\ UNCHANGED <<apiKey, srv, parserVars, deckVars, appVars>>

\* the network fails under fetch
FetchNetworkError(i) ==
    /\ cli[i].pc = "fetching"
    /\ cli' = [cli EXCEPT ![i] = ClientCatch(@, NetworkError)]
    /\ UNCHANGED <<apiKey, srv, parserVars, deckVars, appVars>>

\* AbortSignal.timeout(45000) fires before fetch has resolved
FetchTimeout(i) ==
    /\ cli[i].pc = "fetching"
    /\ cli' = [cli EXCEPT ![i] = ClientCatch(@, TimeoutError)]
    /\ UNCHANGED <<apiKey, srv, parserVars, deckVars, appVars>>

Next ==
    \E i \in Reqs :
        \/ \E body \in Bodies : PostDirect(i, body)
        \/ \E textPrompt \in PromptValues :
               GenerateAICards(i, textPrompt, Num(DEFAULT_NUM_QUESTIONS))
        \/ HandleRequest(i)
        \/ \E reply \in ReplyTexts : GeminiReplies(i, reply)
        \/ GeminiFails(i)
        \/ FetchResolves(i)
        \/ FetchGatewayError(i)
        \/ FetchNetworkError(i)
        \/ FetchTimeout(i)

Spec == Init /\ [][Next]_vars


(***************************************************************************)
(* parseGeminiResponse alone, on texts built from blocks.  A block is a    *)
(* Q: line and an A: line, the two the other way round, one of the two     *)
(* alone, or a line of prose; the blocks of a text are joined by a blank   *)
(* line.  A raw block is any short string over RawChars.                   *)
(***************************************************************************)
ContentX == <<SP, "x">>
ContentY == <<"y", SP>>
\* a marker in lower case in the middle of the line
ContentMid == <<SP, "x", SP, "q", ":", "y">>
\* trims to empty
ContentBlank == <<SP>>

Pair(q, a) == [kind |-> "pair", q |-> q, a |-> a]
QOnly(q) == [kind |-> "qOnly", q |-> q, a |-> <<>>]
AOnly(a) == [kind |-> "aOnly", q |-> <<>>, a |-> a]
Prose == [kind |-> "prose", q |-> <<"x", SP, "y">>, a |-> <<>>]
\* the answer line first
AnswerFirst(q, a) == [kind |-> "answerFirst", q |-> q, a |-> a]
Raw(s) == [kind |-> "raw", q |-> s, a |-> <<>>]

BlockSet ==
    {Pair(ContentX, ContentY), Pair(ContentY, ContentX),
     Pair(ContentMid, ContentX), Pair(ContentX, ContentMid),
     Pair(ContentBlank, ContentX), Pair(ContentX, ContentBlank),
     QOnly(ContentX), QOnly(ContentY), AOnly(ContentX), AOnly(ContentY),
     Prose, AnswerFirst(ContentX, ContentY)}

RawChars == {"Q", "A", ":", NL, "x"}
RawTexts == UNION {[1..n -> RawChars] : n \in 1..MaxRaw}

Separators == {<<NL, NL>>, <<NL, SP, NL>>}

BlockSeqs ==
    UNION {[1..n -> BlockSet] : n \in 0..MaxBlocks} \cup {<<Raw(s)>> : s \in RawTexts}

RenderBlock(b) ==
    CASE b.kind = "pair" -> <<"Q", ":">> \o b.q \o <<NL, "A", ":">> \o b.a
      [] b.kind = "qOnly" -> <<"Q", ":">> \o b.q
      [] b.kind = "aOnly" -> <<"A", ":">> \o b.a
      [] b.kind = "answerFirst" -> <<"A", ":">> \o b.a \o <<NL, "Q", ":">> \o b.q
      [] OTHER -> b.q

RECURSIVE Render(_, _)
Render(bs, s) ==
    IF bs = <<>> THEN <<>>
    ELSE IF Len(bs) = 1 THEN RenderBlock(bs[1])
    ELSE RenderBlock(bs[1]) \o s \o Render(Tail(bs), s)

InitParse ==
    /\ apiKey = TRUE
    /\ srv = [i \in Reqs |-> IdleRequest]
    /\ cli = [i \in Reqs |-> IdleClient]
    /\ DeckIdle
    /\ AppIdle
    /\ blocks \in BlockSeqs
    /\ sep \in (IF Len(blocks) > 1 THEN Separators ELSE {<<NL, NL>>})
    /\ textResponse = Render(blocks, sep)
    /\ formattedCards = <<>>
    /\ parseDone = FALSE
    /\ primaryCards = <<>>
    /\ fallbackRan = FALSE
    /\ leftCards = <<>>
    /\ otherDone = FALSE
    /\ againCards = <<>>
    /\ againDone = FALSE

\* const formattedCards = await parseGeminiResponse(textResponse)
Parse ==
    /\ ~parseDone
    /\ \E call \in {ParseCall(leftCards, textResponse)} :
           /\ primaryCards' = call.primary
           /\ fallbackRan' = call.fallback
           /\ formattedCards' = call.cards
           /\ leftCards' = call.cards
    /\ parseDone' = TRUE
    /\ UNCHANGED <<handlerVars, deckVars, appVars, blocks, sep, textResponse,
                   otherDone, againCards, againDone>>

\* the parser is called on another text in between
ParseOther(other) ==
    /\ parseDone /\ ~otherDone /\ ~againDone
    /\ Len(blocks) <= MaxAgain
    /\ leftCards' = ParseCall(leftCards, other).cards
    /\ otherDone' = TRUE
    /\ UNCHANGED <<handlerVars, deckVars, appVars, blocks, sep, textResponse, formattedCards,
                   parseDone, primaryCards, fallbackRan, againCards, againDone>>

\* parseGeminiResponse(textResponse) once more
ParseAgain ==
    /\ parseDone /\ ~againDone
    /\ Len(blocks) <= MaxAgain
    /\ \E call \in {ParseCall(leftCards, textResponse)} :
           /\ againCards' = call.cards
           /\ leftCards' = call.cards
    /\ againDone' = TRUE
    /\ UNCHANGED <<handlerVars, deckVars, appVars, blocks, sep, textResponse, formattedCards,
                   parseDone, primaryCards, fallbackRan, otherDone>>

NextParse ==
    \/ Parse
    \/ ParseOther(ReplyTwoPairs)
    \/ ParseAgain

SpecParse == InitParse /\ [][NextParse]_vars

(***************************************************************************)
(* generateAICards alone, against whatever is deployed at AI_API_ENDPOINT: *)
(* the fetch resolves with any of the responses an endpoint of this        *)
(* interface can give.                                                     *)
(***************************************************************************)
OneCard == <<[question |-> <<"x">>, answer |-> <<"y">>]>>

EndpointResponses ==
    {CardsResponse(<<>>), CardsResponse(OneCard), [status |-> 200],
     ErrorResponse(500, MSG_PARSE)}

\* the client's fetch resolves with response
FetchResolvesWith(i, response) ==
    /\ cli[i].pc = "fetching"
    /\ cli' = [cli EXCEPT ![i] = ClientOnResponse(@, response)]
    /\ UNCHANGED <<apiKey, srv, parserVars, deckVars, appVars>>

InitClient ==
    /\ apiKey = TRUE
    /\ srv = [i \in Reqs |-> IdleRequest]
    /\ cli = [i \in Reqs |-> IdleClient]
    /\ ParserIdle
    /\ DeckIdle
    /\ AppIdle

NextClient ==
    \E i \in Reqs :
        \/ \E textPrompt \in PromptValues :
               GenerateAICards(i, textPrompt, Num(DEFAULT_NUM_QUESTIONS))
        \/ \E response \in EndpointResponses : FetchResolvesWith(i, response)
        \/ FetchGatewayError(i)
        \/ FetchNetworkError(i)
        \/ FetchTimeout(i)

SpecClient == InitClient /\ [][NextClient]_vars

(***************************************************************************)
(* The title of the deck: DeckEditor is mounted on a deck of the store,    *)
(* its owner signed in.  A change of isEditingDeckTitle runs the effect    *)
(* again, [deckId, isEditingDeckTitle] being its dependencies: the cleanup *)
(* unmounts the run before, whose fetch and listener do nothing more.      *)
(***************************************************************************)
InitDeck ==
    /\ apiKey = TRUE
    /\ srv = [i \in Reqs |-> IdleRequest]
    /\ cli = [i \in Reqs |-> IdleClient]
    /\ ParserIdle
    /\ store \in {DeckData(t) : t \in Titles}
    /\ deck = NoDeck
    /\ editDeckTitle = ""
    /\ isEditingDeckTitle = FALSE
    /\ effect = RunEffect(FALSE, "")
    /\ updating = FALSE
    /\ errorMessage = ""
    /\ successMessage = ""
    /\ currentUserId = OwnerId
    /\ EditorIdle
    /\ OthersIdle

\* the getDoc of fetchDeckData resolves
FetchDeckDataResolves ==
    /\ effect.fetching
    /\ effect' = [effect EXCEPT !.fetching = FALSE]
    /\ IF store.exists
       THEN /\ deck' = store
            /\ editDeckTitle' = store.title
            /\ UNCHANGED errorMessage
       ELSE /\ errorMessage' = MSG_DECK_NOT_FOUND
            /\ UNCHANGED <<deck, editDeckTitle>>
    /\ UNCHANGED <<handlerVars, parserVars, appVars, store, isEditingDeckTitle, updating,
                   successMessage>>

\* the listener of the deck document gets a snapshot
DeckSnapshot ==
    /\ effect.deckListening
    /\ IF store.exists
       THEN /\ deck' = store
            /\ editDeckTitle' = IF ~effect.isEditingDeckTitle
                                THEN store.title ELSE editDeckTitle
            /\ UNCHANGED errorMessage
       ELSE /\ errorMessage' = MSG_DECK_REVOKED
            /\ deck' = NoDeck
            /\ UNCHANGED editDeckTitle
    /\ UNCHANGED <<handlerVars, parserVars, appVars, store, isEditingDeckTitle, effect,
                   updating, successMessage>>

\* the listener of the cards fails: its error callback runs, and the
\* listener delivers nothing more
CardsListenerFails ==
    /\ effect.cardsListening
    /\ effect' = [effect EXCEPT !.cardsListening = FALSE]
    /\ errorMessage' = IF effect.errorMessage = "" THEN "Failed to load card updates."
                        ELSE errorMessage
    /\ UNCHANGED <<handlerVars, parserVars, appVars, store, deck, editDeckTitle,
                   isEditingDeckTitle, updating, successMessage>>

\* the listener of the deck document fails
DeckListenerFails ==
    /\ effect.deckListening
    /\ effect' = [effect EXCEPT !.deckListening = FALSE]
    /\ errorMessage' = IF effect.errorMessage = "" THEN "Failed to sync deck updates."
                        ELSE errorMessage
    /\ UNCHANGED <<handlerVars, parserVars, appVars, store, deck, editDeckTitle,
                   isEditingDeckTitle, updating, successMessage>>

\* onClick of the title: isOwner && setIsEditingDeckTitle(true)
ClickTitle ==
    /\ ~(isEditingDeckTitle /\ isOwner)
    /\ isOwner
    /\ isEditingDeckTitle' = TRUE
    /\ effect' = RunEffect(TRUE, errorMessage)
    /\ UNCHANGED <<handlerVars, parserVars, appVars, store, deck, editDeckTitle, updating,
                   errorMessage, successMessage>>

\* onChange of the input: setEditDeckTitle(e.target.value)
ChangeTitle(value) ==
    /\ isEditingDeckTitle /\ isOwner
    /\ editDeckTitle' = value
    /\ UNCHANGED <<handlerVars, parserVars, appVars, store, deck, isEditingDeckTitle, effect,
                   updating, errorMessage, successMessage>>

\* onClick of Cancel
CancelTitle ==
    /\ isEditingDeckTitle /\ isOwner
    /\ isEditingDeckTitle' = FALSE
    /\ editDeckTitle' = deck.title
    /\ errorMessage' = "" /\ successMessage' = ""
    /\ effect' = RunEffect(FALSE, "")
    /\ UNCHANGED <<handlerVars, parserVars, appVars, store, deck, updating>>

\* updateDeckTitle up to its await of updateDoc, which fails at once on a
\* document that is gone
UpdateDeckTitle ==
    /\ isEditingDeckTitle /\ isOwner /\ ~updating
    /\ successMessage' = ""
    /\ IF ~isOwner
       THEN /\ errorMessage' = MSG_TITLE_OWNER
            /\ UNCHANGED <<store, updating>>
       ELSE IF TrimTitle(editDeckTitle) = ""
       THEN /\ errorMessage' = MSG_TITLE_EMPTY
            /\ UNCHANGED <<store, updating>>
       ELSE IF ~store.exists
       THEN /\ errorMessage' = MSG_TITLE_FAILED
            /\ UNCHANGED <<store, updating>>
       ELSE /\ errorMessage' = ""
            /\ store' = DeckData(TrimTitle(editDeckTitle))
            /\ updating' = TRUE
    /\ UNCHANGED <<handlerVars, parserVars, appVars, deck, editDeckTitle, isEditingDeckTitle,
                   effect>>

\* updateDoc resolves: setIsEditingDeckTitle(false) and the success message
UpdateResolves ==
    /\ updating
    /\ updating' = FALSE
    /\ isEditingDeckTitle' = FALSE
    /\ successMessage' = MSG_TITLE_UPDATED
    /\ effect' = IF isEditingDeckTitle
                                 THEN RunEffect(FALSE, errorMessage) ELSE effect
    /\ UNCHANGED <<handlerVars, parserVars, appVars, store, deck, editDeckTitle, errorMessage>>

\* the document changes in the store from another session
RemoteChange(data) ==
    /\ store # data
    /\ store' = data
    /\ UNCHANGED <<handlerVars, parserVars, appVars, deck, editDeckTitle, isEditingDeckTitle,
                   effect, updating, errorMessage, successMessage>>

NextDeck ==
    \/ FetchDeckDataResolves
    \/ DeckSnapshot
    \/ CardsListenerFails
    \/ DeckListenerFails
    \/ ClickTitle
    \/ \E value \in InputValues : ChangeTitle(value)
    \/ CancelTitle
    \/ UpdateDeckTitle
    \/ UpdateResolves
    \/ \E data \in StoreValues : RemoteChange(data)

SpecDeck == InitDeck /\ [][NextDeck]_vars

(***************************************************************************)
(* The handlers of DeckEditor.  A handler runs up to its first await and   *)
(* leaves the promise it awaits in ops; the promise resolves or rejects in *)
(* a later step, which runs the rest of the handler.  The render shows the *)
(* controls of these handlers to the owner only, the handlers check        *)
(* isOwner themselves; here they are called whoever is signed in.  The     *)
(* cards a handler is given are those of the store: the listener of the    *)
(* cards keeps the list on the page equal to it.                           *)
(***************************************************************************)
othersVars == <<handlerVars, parserVars, deckList, deleting, pdf, study>>

\* what no handler changes before its first await
storeFrame ==
    <<othersVars, store, deck, editDeckTitle, isEditingDeckTitle, effect, updating,
      currentUserId, cardDocs, nextId>>

RemoveAt(s, k) == SubSeq(s, 1, k - 1) \o SubSeq(s, k + 1, Len(s))

InitEditor ==
    /\ apiKey = TRUE
    /\ srv = [i \in Reqs |-> IdleRequest]
    /\ cli = [i \in Reqs |-> IdleClient]
    /\ ParserIdle
    /\ OthersIdle
    /\ store = DeckData("a")
    /\ deck = NoDeck
    /\ editDeckTitle = ""
    /\ isEditingDeckTitle = FALSE
    /\ effect = RunEffect(FALSE, "")
    /\ updating = FALSE
    /\ errorMessage = ""
    /\ successMessage = ""
    /\ currentUserId \in {NoUser, OwnerId, OtherId}
    /\ cardDocs = {CardDoc(1, DeckId, "q", "a")}
    /\ nextId = 2
    /\ ops = <<>>
    /\ aiGeneratedCards = <<>>
    /\ form \in {[IdleForm EXCEPT !.question = "q ", !.answer = "q ", !.aiPrompt = "q ",
                                  !.collaboratorEmail = e] : e \in EmailInputs}

\* const updateDeckTitle = async () => ..., up to its await
updateDeckTitle ==
    /\ successMessage' = ""
    /\ IF ~isOwner
       THEN /\ errorMessage' = MSG_TITLE_OWNER
            /\ UNCHANGED ops
       ELSE IF TrimTitle(editDeckTitle) = ""
       THEN /\ errorMessage' = MSG_TITLE_EMPTY
            /\ UNCHANGED ops
       ELSE /\ errorMessage' = ""
            /\ ops' = Append(ops, [kind |-> "updateTitle",
                                   title |-> TrimTitle(editDeckTitle)])
    /\ UNCHANGED <<storeFrame, aiGeneratedCards, form>>

\* const addCollaborator = async () => ..., up to its await of getDocs
addCollaborator ==
    /\ successMessage' = ""
    /\ LET emailToAdd == NormalizeEmail(form.collaboratorEmail)
       IN  IF ~isOwner
           THEN /\ errorMessage' = "Only the deck owner can add collaborators."
                /\ UNCHANGED <<ops, form>>
           ELSE IF ~isValidEmail(emailToAdd)
           THEN /\ errorMessage' = "Please enter a valid email address."
                /\ UNCHANGED <<ops, form>>
           ELSE IF currentUserEmail = ""
           THEN /\ errorMessage' = "Could not verify current user. Please log in again."
                /\ UNCHANGED <<ops, form>>
           ELSE IF emailToAdd = currentUserEmail
           THEN /\ errorMessage' = "You cannot add yourself as a collaborator."
                /\ UNCHANGED <<ops, form>>
           ELSE IF emailToAdd \in collaborators
           THEN /\ errorMessage' = "'<email>' is already a collaborator."
                /\ UNCHANGED <<ops, form>>
           ELSE /\ errorMessage' = ""
                /\ form' = [form EXCEPT !.isAddingCollaborator = TRUE]
                /\ ops' = Append(ops, [kind |-> "getUsers", email |-> emailToAdd])
    /\ UNCHANGED <<storeFrame, aiGeneratedCards>>

\* const removeCollaborator = async (emailToRemove) => ..., up to its await
removeCollaborator(emailToRemove) ==
    /\ successMessage' = ""
    /\ IF ~isOwner
       THEN /\ errorMessage' = "Only the deck owner can remove collaborators."
            /\ UNCHANGED ops
       ELSE /\ errorMessage' = ""
            /\ ops' = Append(ops, [kind |-> "setCollaborators",
                                   email |-> emailToRemove,
                                   collaborators |->
                                       deck.collaborators \ {emailToRemove}])
    /\ UNCHANGED <<storeFrame, aiGeneratedCards, form>>

\* const addCard = async () => ..., up to its await
addCard ==
    /\ successMessage' = ""
    /\ IF ~isOwner
       THEN /\ errorMessage' = "Only the deck owner can add or modify cards."
            /\ UNCHANGED ops
       ELSE IF TrimInput(form.question) = "" \/ TrimInput(form.answer) = ""
       THEN /\ errorMessage' = "Both question and answer fields are required."
            /\ UNCHANGED ops
       ELSE /\ errorMessage' = ""
            /\ ops' = Append(ops,
                   IF form.editCardId # NoCard
                   THEN [kind |-> "updateCard", id |-> form.editCardId,
                         question |-> TrimInput(form.question),
                         answer |-> TrimInput(form.answer)]
                   ELSE [kind |-> "addCard",
                         question |-> TrimInput(form.question),
                         answer |-> TrimInput(form.answer)])
    /\ UNCHANGED <<storeFrame, aiGeneratedCards, form>>

\* const editCard = (card) => ...
editCard(card) ==
    IF ~isOwner
    THEN UNCHANGED vars
    ELSE /\ errorMessage' = "" /\ successMessage' = ""
         /\ form' = [form EXCEPT !.editCardId = card.id, !.question = card.question,
                                 !.answer = card.answer]
         /\ UNCHANGED <<storeFrame, ops, aiGeneratedCards>>

\* const deleteCard = async (cardId) => ..., up to its await
deleteCard(cardId) ==
    /\ successMessage' = ""
    /\ IF ~isOwner
       THEN /\ errorMessage' = "Only the deck owner can delete cards."
            /\ UNCHANGED ops
       ELSE /\ errorMessage' = ""
            /\ ops' = Append(ops, [kind |-> "deleteCard", id |-> cardId])
    /\ UNCHANGED <<storeFrame, aiGeneratedCards, form>>

\* const generateQuestions = async () => ..., up to its await of fetch
generateQuestions ==
    /\ successMessage' = ""
    /\ IF ~isOwner
       THEN /\ errorMessage' = "Only the deck owner can generate AI cards."
            /\ UNCHANGED <<ops, aiGeneratedCards, form>>
       ELSE IF TrimInput(form.aiPrompt) = ""
       THEN /\ errorMessage' = "Please enter text to generate questions from"
            /\ aiGeneratedCards' = <<>>
            /\ form' = [form EXCEPT !.isLoading = FALSE]
            /\ UNCHANGED ops
       ELSE /\ errorMessage' = ""
            /\ aiGeneratedCards' = <<>>
            /\ form' = [form EXCEPT !.isLoading = TRUE]
            /\ ops' = Append(ops, [kind |-> "generate", text |-> form.aiPrompt])
    /\ UNCHANGED storeFrame

\* const addAiGeneratedCards = async () => ..., up to its await of commit
addAiGeneratedCards ==
    /\ successMessage' = ""
    /\ IF ~isOwner
       THEN /\ errorMessage' = "Only the deck owner can add AI cards."
            /\ UNCHANGED ops
       ELSE IF Len(aiGeneratedCards) = 0
       THEN /\ errorMessage' = "No AI-generated cards to add."
            /\ UNCHANGED ops
       ELSE /\ errorMessage' = ""
            /\ ops' = Append(ops, [kind |-> "batch", cards |-> aiGeneratedCards])
    /\ UNCHANGED <<storeFrame, aiGeneratedCards, form>>

\* isOwner && aiGeneratedCards.length > 0 && (...)
PreviewRendered == isOwner /\ Len(aiGeneratedCards) > 0

\* onClick of Discard Generated Cards
DiscardGenerated ==
    /\ PreviewRendered
    /\ aiGeneratedCards' = <<>>
    /\ errorMessage' = "" /\ successMessage' = ""
    /\ UNCHANGED <<storeFrame, ops, form>>

\* the documents a batch of generated cards sets, with automatic ids
BatchDocs(cards, first) ==
    {CardDoc(first + i - 1, DeckId, cards[i].question, cards[i].answer) :
         i \in 1..Len(cards)}

\* whether the store takes the write of op: updateDoc needs its document
Accepts(op) ==
    CASE op.kind \in {"updateTitle", "arrayUnion", "setCollaborators"} -> store.exists
      [] op.kind = "updateCard" -> \E c \in cardDocs : c.id = op.id
      [] op.kind = "addCard" -> nextId <= MaxDocs
      [] op.kind = "batch" -> nextId + Len(op.cards) - 1 <= MaxDocs
      [] OTHER -> TRUE

\* the promise of ops[k] resolves, the endpoint answering with response:
\* the store has taken the write, and the handler runs on from its await
OpResolves(k, response) ==
    /\ k \in 1..Len(ops)
    /\ Accepts(ops[k])
    /\ ops[k].kind # "generate" => response = <<>>
    /\ LET op == ops[k]
       IN  CASE op.kind = "updateTitle" ->
                    /\ store' = [store EXCEPT !.title = op.title]
                    /\ isEditingDeckTitle' = FALSE
                    /\ effect' = IF isEditingDeckTitle
                                 THEN RunEffect(FALSE, errorMessage) ELSE effect
                    /\ successMessage' = MSG_TITLE_UPDATED
                    /\ ops' = RemoveAt(ops, k)
                    /\ UNCHANGED <<errorMessage, cardDocs, nextId, aiGeneratedCards, form>>
             [] op.kind = "getUsers" ->
                    /\ IF op.email \notin RegisteredEmails
                       THEN /\ errorMessage' = "No registered user found with email '<email>'. Please ask them to sign up first."
                            /\ form' = [form EXCEPT !.isAddingCollaborator = FALSE]
                            /\ ops' = RemoveAt(ops, k)
                       ELSE /\ ops' = [ops EXCEPT ![k] = [kind |-> "arrayUnion",
                                                          email |-> op.email]]
                            /\ UNCHANGED <<errorMessage, form>>
                    /\ UNCHANGED <<store, isEditingDeckTitle, effect, successMessage,
                                   cardDocs, nextId, aiGeneratedCards>>
             [] op.kind = "arrayUnion" ->
                    /\ store' = [store EXCEPT !.collaborators = @ \cup {op.email}]
                    /\ form' = [form EXCEPT !.collaboratorEmail = "",
                                            !.isAddingCollaborator = FALSE]
                    /\ successMessage' = "Successfully invited <email>."
                    /\ ops' = RemoveAt(ops, k)
                    /\ UNCHANGED <<isEditingDeckTitle, effect, errorMessage, cardDocs,
                                   nextId, aiGeneratedCards>>
             [] op.kind = "setCollaborators" ->
                    /\ store' = [store EXCEPT !.collaborators = op.collaborators]
                    /\ successMessage' = "Removed <email> from collaborators."
                    /\ ops' = RemoveAt(ops, k)
                    /\ UNCHANGED <<isEditingDeckTitle, effect, errorMessage, cardDocs,
                                   nextId, aiGeneratedCards, form>>
             [] op.kind = "updateCard" ->
                    /\ cardDocs' = {IF c.id = op.id
                                    THEN CardDoc(c.id, DeckId, op.question, op.answer)
                                    ELSE c : c \in cardDocs}
                    /\ successMessage' = "Card updated successfully."
                    /\ form' = [form EXCEPT !.editCardId = NoCard, !.question = "",
                                            !.answer = ""]
                    /\ ops' = RemoveAt(ops, k)
                    /\ UNCHANGED <<store, isEditingDeckTitle, effect, errorMessage,
                                   nextId, aiGeneratedCards>>
             [] op.kind = "addCard" ->
                    /\ cardDocs' = cardDocs \cup
                                       {CardDoc(nextId, DeckId, op.question, op.answer)}
                    /\ nextId' = nextId + 1
                    /\ successMessage' = "Card added successfully."
                    /\ form' = [form EXCEPT !.question = "", !.answer = ""]
                    /\ ops' = RemoveAt(ops, k)
                    /\ UNCHANGED <<store, isEditingDeckTitle, effect, errorMessage,
                                   aiGeneratedCards>>
             [] op.kind = "deleteCard" ->
                    /\ cardDocs' = {c \in cardDocs : c.id # op.id}
                    /\ successMessage' = "Card deleted successfully."
                    /\ ops' = RemoveAt(ops, k)
                    /\ UNCHANGED <<store, isEditingDeckTitle, effect, errorMessage,
                                   nextId, aiGeneratedCards, form>>
             [] op.kind = "generate" ->
                    /\ aiGeneratedCards' = response
                    /\ successMessage' = IF Len(response) = 0
                                         THEN "AI processing complete, but no cards were generated. Try adjusting your input text." ELSE "Generated <n> cards. Review below and add them if desired."
                    /\ form' = [form EXCEPT !.isLoading = FALSE]
                    /\ ops' = RemoveAt(ops, k)
                    /\ UNCHANGED <<store, isEditingDeckTitle, effect, errorMessage,
                                   cardDocs, nextId>>
             [] op.kind = "batch" ->
                    /\ cardDocs' = cardDocs \cup BatchDocs(op.cards, nextId)
                    /\ nextId' = nextId + Len(op.cards)
                    /\ successMessage' = "Successfully added <n> AI-generated cards."
                    /\ aiGeneratedCards' = <<>>
                    /\ form' = [form EXCEPT !.aiPrompt = ""]
                    /\ ops' = RemoveAt(ops, k)
                    /\ UNCHANGED <<store, isEditingDeckTitle, effect, errorMessage>>
    /\ UNCHANGED <<othersVars, deck, editDeckTitle, updating, currentUserId>>

\* the message of the catch of the handler that awaits op
FailureMessage(op) ==
    CASE op.kind = "updateTitle" -> MSG_TITLE_FAILED
      [] op.kind \in {"getUsers", "arrayUnion"} -> "Failed to add collaborator. Please check the email and try again."
      [] op.kind = "setCollaborators" -> "Failed to remove collaborator. Please try again."
      [] op.kind \in {"updateCard", "addCard"} -> "Failed to save card. Please try again."
      [] op.kind = "deleteCard" -> "Failed to delete card. Please try again."
      [] op.kind = "generate" -> "Failed to generate questions. Please try again."
      [] op.kind = "batch" -> "Failed to add AI-generated cards. Please try again."

\* the promise of ops[k] rejects: the store is as it was, and the handler
\* runs its catch and its finally
OpRejects(k) ==
    /\ k \in 1..Len(ops)
    /\ errorMessage' = FailureMessage(ops[k])
    /\ form' = CASE ops[k].kind \in {"getUsers", "arrayUnion"} ->
                       [form EXCEPT !.isAddingCollaborator = FALSE]
                 [] ops[k].kind = "generate" -> [form EXCEPT !.isLoading = FALSE]
                 [] OTHER -> form
    /\ ops' = RemoveAt(ops, k)
    /\ UNCHANGED <<storeFrame, successMessage, aiGeneratedCards>>

\* arrayUnion(email) of the addCollaborator of another session of the owner
\* reaches the store
RemoteAddCollaborator(email) ==
    /\ store.exists /\ email \notin store.collaborators
    /\ email # EmailOf(store.ownerId)
    /\ store' = [store EXCEPT !.collaborators = @ \cup {email}]
    /\ UNCHANGED <<handlerVars, parserVars, appVars, deck, editDeckTitle,
                   isEditingDeckTitle, effect, updating, errorMessage, successMessage>>

\* the user calls one handler and waits for it to finish
Waits == Len(ops) = 0

NextEditor ==
    \/ FetchDeckDataResolves
    \/ DeckSnapshot
    \/ Waits /\ updateDeckTitle
    \/ Waits /\ addCollaborator
    \/ \E email \in collaborators : Waits /\ removeCollaborator(email)
    \/ Waits /\ addCard
    \/ \E card \in CardsOf(DeckId) : Waits /\ editCard(card)
    \/ \E card \in CardsOf(DeckId) : Waits /\ deleteCard(card.id)
    \/ Waits /\ generateQuestions
    \/ Waits /\ addAiGeneratedCards
    \/ DiscardGenerated
    \/ \E response \in Previews : OpResolves(1, response)
    \/ OpRejects(1)
    \/ \E email \in RegisteredEmails : RemoteAddCollaborator(email)

SpecEditor == InitEditor /\ [][NextEditor]_vars

(***************************************************************************)
(* The preview of generated cards: the owner has the deck and a preview on *)
(* the page.  The button Add These Cards to Deck is rendered as long as    *)
(* the preview is not empty, also while a commit is awaited.               *)
(***************************************************************************)
InitPreview ==
    /\ apiKey = TRUE
    /\ srv = [i \in Reqs |-> IdleRequest]
    /\ cli = [i \in Reqs |-> IdleClient]
    /\ ParserIdle
    /\ OthersIdle
    /\ store \in {DeckData(t) : t \in Titles}
    /\ deck = store
    /\ editDeckTitle = store.title
    /\ isEditingDeckTitle = FALSE
    /\ effect = NoEffect
    /\ updating = FALSE
    /\ errorMessage = ""
    /\ successMessage = "Generated <n> cards. Review below and add them if desired."
    /\ currentUserId = OwnerId
    /\ cardDocs \in {{}, {CardDoc(1, DeckId, "q", "a")}}
    /\ nextId = 2
    /\ ops = <<>>
    /\ aiGeneratedCards \in Previews \ {<<>>}
    /\ form = [IdleForm EXCEPT !.aiPrompt = "q ", !.question = "q "]

NextPreview ==
    \/ PreviewRendered /\ Len(ops) < MaxOps /\ addAiGeneratedCards
    \/ DiscardGenerated
    \/ Len(ops) < MaxOps /\ addCard
    \/ \E k \in 1..MaxOps : OpResolves(k, <<>>)
    \/ \E k \in 1..MaxOps : OpRejects(k)

SpecPreview == InitPreview /\ [][NextPreview]_vars

(***************************************************************************)
(* DeckList mounted with a user signed in: the effect has subscribed the   *)
(* two listeners.  Cards are added to the deck from a DeckEditor of        *)
(* another session while handleDeleteDeck runs.                            *)
(***************************************************************************)
InitList ==
    /\ apiKey = TRUE
    /\ srv = [i \in Reqs |-> IdleRequest]
    /\ cli = [i \in Reqs |-> IdleClient]
    /\ ParserIdle
    /\ \E cs \in SUBSET {EmailOf(OtherId)} :
           store = [DeckData("a") EXCEPT !.collaborators = cs]
    /\ deck = NoDeck
    /\ editDeckTitle = ""
    /\ isEditingDeckTitle = FALSE
    /\ effect = NoEffect
    /\ updating = FALSE
    /\ errorMessage = ""
    /\ successMessage = ""
    /\ currentUserId \in {OwnerId, OtherId}
    /\ cardDocs = {CardDoc(1, DeckId, "q", "a")}
    /\ nextId = 2
    /\ ops = <<>>
    /\ aiGeneratedCards = <<>>
    /\ form = IdleForm
    /\ deckList = IdleList
    /\ deleting = NoDelete
    /\ pdf = IdlePdf
    /\ study = IdleStudy

\* what DeckList neither holds nor writes
listFrame ==
    <<handlerVars, parserVars, deck, editDeckTitle, isEditingDeckTitle, effect,
      updating, errorMessage, successMessage, currentUserId, ops, aiGeneratedCards,
      form, pdf, study>>

\* the listener of the owned decks delivers a snapshot
OwnedSnapshot ==
    /\ "owned" \notin deckList.failed
    /\ deckList' = [updateDecksState(deckList, OwnedDecks(currentUserId), "owned")
                        EXCEPT !.delivered = @ \cup {"owned"}]
    /\ UNCHANGED <<listFrame, store, cardDocs, nextId, deleting>>

\* the listener of the collaborated decks delivers a snapshot
CollaboratedSnapshot ==
    /\ "collaborated" \notin deckList.failed
    /\ deckList' = [updateDecksState(deckList, CollaboratedDecks(currentUserId),
                                     "collaborated")
                        EXCEPT !.delivered = @ \cup {"collaborated"}]
    /\ UNCHANGED <<listFrame, store, cardDocs, nextId, deleting>>

\* the error callback of a listener, which delivers nothing more
ListenerFails(type) ==
    /\ type \notin deckList.failed
    /\ deckList' = [deckList EXCEPT
                        !.error = IF type = "owned" THEN "Failed to load owned decks."
                                  ELSE "Failed to load collaborated decks.",
                        !.isLoading = FALSE,
                        !.failed = @ \cup {type}]
    /\ UNCHANGED <<listFrame, store, cardDocs, nextId, deleting>>

\* const handleDeleteDeck = async (deckId, isDeckOwner) => ..., up to its
\* await of getDocs; confirmed is the answer to window.confirm
handleDeleteDeck(deckId, isDeckOwner, confirmed) ==
    /\ deleting.pc = "idle"
    /\ IF currentUserId = NoUser \/ ~isDeckOwner \/ ~confirmed
       THEN UNCHANGED deleting
       ELSE deleting' = [pc |-> "querying", deckId |-> deckId, cardIds |-> {}]
    /\ UNCHANGED <<listFrame, store, cardDocs, nextId, deckList>>

\* getDocs(cardsQuery) resolves: a delete of each card found joins the batch
GetDocsResolves ==
    /\ deleting.pc = "querying"
    /\ deleting' = [deleting EXCEPT !.pc = "committing",
                                    !.cardIds = {c.id : c \in CardsOf(deleting.deckId)}]
    /\ UNCHANGED <<listFrame, store, cardDocs, nextId, deckList>>

\* batch.commit() resolves: the store has deleted the cards of the batch and
\* the deck, all at once
CommitResolves ==
    /\ deleting.pc = "committing"
    /\ cardDocs' = {c \in cardDocs : c.id \notin deleting.cardIds}
    /\ store' = NoDeck
    /\ deleting' = NoDelete
    /\ UNCHANGED <<listFrame, nextId, deckList>>

\* getDocs or batch.commit() rejects: the catch of handleDeleteDeck
DeleteRejects ==
    /\ deleting.pc \in {"querying", "committing"}
    /\ deleting' = NoDelete
    /\ deckList' = [deckList EXCEPT !.error = "Failed to delete deck: <message>. Please try again."]
    /\ UNCHANGED <<listFrame, store, cardDocs, nextId>>

\* addDoc of the addCard of a DeckEditor of another session reaches the store
RemoteAddCard ==
    /\ store.exists /\ nextId <= MaxDocs
    /\ cardDocs' = cardDocs \cup {CardDoc(nextId, DeckId, "q", "a")}
    /\ nextId' = nextId + 1
    /\ UNCHANGED <<listFrame, store, deckList, deleting>>

NextList ==
    \/ OwnedSnapshot
    \/ CollaboratedSnapshot
    \/ \E type \in {"owned", "collaborated"} : ListenerFails(type)
    \/ \E d \in deckList.decks, confirmed \in BOOLEAN :
           handleDeleteDeck(d.id, d.isOwner, confirmed)
    \/ GetDocsResolves
    \/ CommitResolves
    \/ DeleteRejects
    \/ RemoteAddCard

SpecList == InitList /\ [][NextList]_vars

(***************************************************************************)
(* handleExportPDF of DeckEditor, and exportDeckToPDF which has the same   *)
(* body, on a deck of count cards: the title, then for each card its       *)
(* question, its answer and the separator.  belowLastLine is where         *)
(* addWrappedText left the cursor.                                         *)
(***************************************************************************)
InitPdf ==
    /\ apiKey = TRUE
    /\ srv = [i \in Reqs |-> IdleRequest]
    /\ cli = [i \in Reqs |-> IdleClient]
    /\ ParserIdle
    /\ store \in {DeckData(t) : t \in Titles}
    /\ deck = store
    /\ editDeckTitle = store.title
    /\ isEditingDeckTitle = FALSE
    /\ effect = NoEffect
    /\ updating = FALSE
    /\ errorMessage = ""
    /\ successMessage = ""
    /\ currentUserId = OwnerId
    /\ EditorIdle
    /\ OthersIdle

pdfFrame ==
    <<handlerVars, parserVars, store, deck, editDeckTitle, isEditingDeckTitle, effect,
      updating, editorVars, deckList, deleting, study>>

\* handleExportPDF up to the loop over the cards: the title is written
handleExportPDF(count, titleLines) ==
    /\ pdf.pc = "idle" /\ deck.exists
    /\ LET title == addWrappedText([currentY |-> marginTop, page |-> 1,
                                    broke |-> FALSE], titleLines)
       IN  pdf' = [pc |-> "question", count |-> count, index |-> 0,
                   currentY |-> title.currentY + cardSpacing, page |-> title.page,
                   startY |-> 0, questionEndY |-> 0, broke |-> FALSE,
                   belowLastLine |-> title.currentY]
    /\ errorMessage' = "" /\ successMessage' = ""
    /\ UNCHANGED pdfFrame

\* the question of a card, of questionLinesAdded lines
WriteQuestion(questionLinesAdded) ==
    /\ pdf.pc = "question"
    /\ LET startY == pdf.currentY
           text == addWrappedText([currentY |-> pdf.currentY, page |-> pdf.page,
                                   broke |-> FALSE], questionLinesAdded)
           currentY == AdjustShortText(questionLinesAdded, text.currentY, startY)
       IN  pdf' = [pdf EXCEPT !.pc = "answer", !.startY = startY,
                              !.currentY = currentY, !.questionEndY = currentY,
                              !.page = text.page, !.broke = text.broke,
                              !.belowLastLine = text.currentY]
    /\ UNCHANGED <<pdfFrame, errorMessage, successMessage>>

\* the answer of the card, of answerLinesAdded lines
WriteAnswer(answerLinesAdded) ==
    /\ pdf.pc = "answer"
    /\ LET spaced == pdf.currentY + lineSpacing * 2
           text == addWrappedText(
                       [currentY |-> IF PageIsFull(spaced) THEN marginTop ELSE spaced,
                        page |-> IF PageIsFull(spaced) THEN pdf.page + 1 ELSE pdf.page,
                        broke |-> PageIsFull(spaced)], answerLinesAdded)
           currentY == AdjustShortText(answerLinesAdded, text.currentY,
                                       pdf.questionEndY + lineSpacing * 2)
       IN  pdf' = [pdf EXCEPT !.pc = "separator", !.currentY = currentY,
                              !.page = text.page, !.broke = text.broke,
                              !.belowLastLine = text.currentY]
    /\ UNCHANGED <<pdfFrame, errorMessage, successMessage>>

\* the separator after a card that is not the last, and on to the next card
WriteSeparator ==
    /\ pdf.pc = "separator"
    /\ IF pdf.index < pdf.count - 1
       THEN LET spaced == pdf.currentY + cardSpacing \div 2
                full == spaced + separatorHeight > pageHeight - marginBottom
            IN  pdf' = [pdf EXCEPT !.pc = "question", !.index = @ + 1,
                                   !.currentY = IF full THEN marginTop
                                                ELSE spaced + cardSpacing \div 2,
                                   !.page = IF full THEN @ + 1 ELSE @]
       ELSE pdf' = [pdf EXCEPT !.pc = "save"]
    /\ UNCHANGED <<pdfFrame, errorMessage, successMessage>>

\* doc.save(filename), the success message and the finally
SavePdf ==
    /\ pdf.pc = "save"
    /\ pdf' = IdlePdf
    /\ successMessage' = "PDF exported successfully!"
    /\ UNCHANGED <<pdfFrame, errorMessage>>

NextPdf ==
    \/ \E count \in 1..MaxCards, titleLines \in 1..MaxLines :
           handleExportPDF(count, titleLines)
    \/ \E n \in 1..MaxLines : WriteQuestion(n)
    \/ \E n \in 1..MaxLines : WriteAnswer(n)
    \/ WriteSeparator
    \/ SavePdf

SpecPdf == InitPdf /\ [][NextPdf]_vars

(***************************************************************************)
(* StudyMode mounted on a deck: fetchCards resolves or fails, then the     *)
(* clicks on the card and on its buttons, each on the state of the render  *)
(* that shows them.                                                        *)
(***************************************************************************)
InitStudy ==
    /\ apiKey = TRUE
    /\ srv = [i \in Reqs |-> IdleRequest]
    /\ cli = [i \in Reqs |-> IdleClient]
    /\ ParserIdle
    /\ DeckIdle
    /\ AppIdle

studyFrame == <<handlerVars, parserVars, deckVars, editorVars, deckList, deleting, pdf>>

\* getDocs of fetchCards resolves with the n cards of the deck
FetchCardsResolves(n) ==
    /\ study.loading
    /\ study' = [study EXCEPT !.cards = CardsData(n), !.loading = FALSE]
    /\ UNCHANGED studyFrame

\* getDocs of fetchCards rejects: the finally of fetchCards
FetchCardsRejects ==
    /\ study.loading
    /\ study' = [study EXCEPT !.loading = FALSE]
    /\ UNCHANGED studyFrame

\* onClick of the card and of Show Answer: setShowAnswer(!showAnswer)
ToggleAnswer ==
    /\ CardShown(study)
    /\ study' = [study EXCEPT !.showAnswer = ~@]
    /\ UNCHANGED studyFrame

\* onClick of Correct (true) and of Incorrect (false)
Answer(correct) ==
    /\ CardShown(study)
    /\ study' = handleAnswer(study, correct)
    /\ UNCHANGED studyFrame

NextStudy ==
    \/ \E n \in 0..MaxStudy : FetchCardsResolves(n)
    \/ FetchCardsRejects
    \/ ToggleAnswer
    \/ \E correct \in BOOLEAN : Answer(correct)

SpecStudy == InitStudy /\ [][NextStudy]_vars

(***************************************************************************)
(* Fairness: the runtime runs a handler that has a request and fires an    *)
(* armed timer, and a response that was sent reaches the fetch that waits  *)
(* for it.  Nothing makes the external service answer.                     *)
(***************************************************************************)
FairSpec ==
    /\ Spec
    /\ \A i \in Reqs :
           /\ WF_vars(HandleRequest(i))
           /\ WF_vars(FetchResolves(i))
           /\ WF_vars(FetchTimeout(i))


(***************************************************************************)
(* The claims.                                                             *)
(***************************************************************************)
HandlerRan(i) == srv[i].pc \in {"awaiting", "done"}
IsString(t) == t.type = "string"

\* C1: with the key configured, a request whose text is absent or longer
\* than 10,000 characters ends in one 400 response and nothing is sent to the
\* external service for it; a text of exactly 10,000 characters gets no 400
\* and is sent on.
C1_InvalidInputRejected ==
    \A i \in Reqs :
        (apiKey /\ HandlerRan(i)) =>
            LET t == srv[i].body.text
            IN  /\ (t.type = "undefined" \/ (IsString(t) /\ t.length > 10000)) =>
                       /\ srv[i].pc = "done"
                       /\ Len(srv[i].responses) = 1
                       /\ srv[i].responses[1].status = 400
                       /\ srv[i].sent = <<>>
                /\ (IsString(t) /\ t.length = 10000) =>
                       /\ \A k \in DOMAIN srv[i].responses :
                              srv[i].responses[k].status # 400
                       /\ Len(srv[i].sent) = 1

C1_Witness ==
    \E i, j \in Reqs :
        /\ apiKey
        /\ srv[i].pc = "done" /\ srv[i].body.text = Str(10001, FALSE)
        /\ srv[i].responses = <<ErrorResponse(400, MSG_TOO_LARGE)>>
        /\ srv[j].pc = "awaiting" /\ srv[j].body.text = Str(10000, FALSE)

\* C2: a request whose text is empty or only whitespace is rejected with a
\* 400 and nothing is ever sent to the external service for it.
C2_BlankTextRejected ==
    \A i \in Reqs :
        (apiKey /\ HandlerRan(i) /\ IsString(srv[i].body.text)
                /\ srv[i].body.text.blank) =>
            /\ srv[i].sent = <<>>
            /\ srv[i].pc = "done"
            /\ srv[i].responses[1].status = 400

C4_OneShot ==
    /\ [](\A i \in Reqs :
             /\ Len(srv[i].responses) <= 1
             /\ (srv[i].pc = "done") <=> (Len(srv[i].responses) = 1)
             /\ \A k \in DOMAIN srv[i].responses :
                    srv[i].responses[k].status = 200 =>
                        /\ srv[i].reply.given
                        /\ srv[i].responses[k].generated_cards
                               = parseGeminiResponse(srv[i].reply.text))
    /\ [][\A i \in Reqs : srv[i].pc = "done" => srv'[i] = srv[i]]_vars

C4_Witness ==
    \E i, j \in Reqs :
        /\ srv[i].pc = "done" /\ srv[i].reply.given
        /\ srv[i].responses[1].status = 200
        /\ Len(srv[i].responses[1].generated_cards) = 2
        /\ srv[j].pc = "done"
        /\ srv[j].responses = <<ErrorResponse(500, MSG_PARSE)>>

\* C5: every invocation ends: a handler that awaits the external service
\* eventually is done, and so is a client that awaits its fetch.
C5_EveryInvocationEnds ==
    \A i \in Reqs :
        /\ (srv[i].pc = "awaiting") ~> (srv[i].pc = "done")
        /\ (cli[i].pc = "fetching") ~> (cli[i].pc = "done")

\* C6: a client whose timer fired before its fetch resolved ends with the
\* timed-out message, and no failure of another kind ends with that message.
C6_TimeoutIsItsOwnOutcome ==
    \A i \in Reqs :
        cli[i].pc = "done" =>
            (cli[i].error.name = "TimeoutError"
                 <=> cli[i].errorMessage = MSG_TIMED_OUT)

C6_Witness ==
    \E i, j \in Reqs :
        /\ cli[i].pc = "done" /\ srv[i].pc = "awaiting"
        /\ cli[i].error = TimeoutError
        /\ cli[i].errorMessage = MSG_TIMED_OUT
        /\ cli[j].pc = "done" /\ cli[j].error.name = "Error"
        /\ cli[j].errorMessage = MSG_UNEXPECTED

\* C7: an invocation sends at most one request to the external service,
\* exactly one once a text that passes the handler's validation has been
\* handled, and what was sent never grows afterwards, whatever the outcome.
C7_OneCallNoRetry ==
    /\ [](\A i \in Reqs :
             /\ Len(srv[i].sent) <= 1
             /\ (apiKey /\ HandlerRan(i) /\ IsString(srv[i].body.text)
                        /\ srv[i].body.text.length \in 1..10000) =>
                    Len(srv[i].sent) = 1)
    /\ [][\A i \in Reqs : srv[i].sent # <<>> => srv'[i].sent = srv[i].sent]_vars

C7_Witness ==
    \E i, j \in Reqs :
        /\ srv[i].pc = "done" /\ Len(srv[i].sent) = 1 /\ ~srv[i].reply.given
        /\ srv[i].responses = <<ErrorResponse(500, MSG_UNEXPECTED)>>
        /\ cli[j].pc = "done" /\ cli[j].error = TimeoutError
        /\ Len(srv[j].sent) = 1

\* C8: the response of a finished handler is a fixed function of the
\* condition it met: 503 without the key, whatever the body; 400 'Missing'
\* for a text that is absent (or the empty string); 400 'too large' past
\* 10,000 characters; 500 with the parse message for a reply without cards;
\* 200 with the cards for a reply with cards; 500 with the generic message
\* for every other failure.
ExpectedResponse(i) ==
    LET t == srv[i].body.text
    IN  IF ~apiKey THEN [status |-> 503, error |-> MSG_UNAVAILABLE]
        ELSE IF t.type = "undefined" \/ (IsString(t) /\ t.length = 0)
        THEN [status |-> 400, error |-> MSG_MISSING]
        ELSE IF IsString(t) /\ t.length > 10000
        THEN [status |-> 400, error |-> MSG_TOO_LARGE]
        ELSE IF srv[i].reply.given
        THEN IF parseGeminiResponse(srv[i].reply.text) = <<>>
             THEN [status |-> 500, error |-> MSG_PARSE]
             ELSE [status |-> 200,
                   generated_cards |-> parseGeminiResponse(srv[i].reply.text)]
        ELSE [status |-> 500, error |-> MSG_UNEXPECTED]

WellFormed(b) == b.kind = "pair" /\ Trim(b.q) # <<>> /\ Trim(b.a) # <<>>
OwnCard(b) == [question |-> Trim(b.q), answer |-> Trim(b.a)]

\* C9: of a text made of N well-formed pairs joined by blank lines the
\* parser returns N cards, the i-th holding the trimmed question and answer
\* of the i-th pair.
C9_PairsInSourceOrder ==
    (parseDone /\ \A k \in DOMAIN blocks : WellFormed(blocks[k])) =>
        /\ Len(formattedCards) = Len(blocks)
        /\ \A k \in DOMAIN blocks : formattedCards[k] = OwnCard(blocks[k])

C9_Witness ==
    /\ parseDone
    /\ Len(blocks) = 3
    /\ \A k \in DOMAIN blocks : WellFormed(blocks[k])
    /\ blocks[1] # blocks[2] /\ blocks[2] = Pair(ContentMid, ContentX)
    /\ sep = <<NL, SP, NL>>
    /\ Len(formattedCards) = 3

RECURSIVE OwnCards(_)
OwnCards(bs) ==
    IF bs = <<>> THEN <<>>
    ELSE (IF WellFormed(Head(bs)) THEN <<OwnCard(Head(bs))>> ELSE <<>>)
             \o OwnCards(Tail(bs))

\* C10: in a text of well-formed pairs and of blocks that lack their answer
\* marker or their question marker, with a well-formed pair among them, the
\* cards are those of the well-formed pairs, each with its own question and
\* answer: the other blocks add no card and no text.
C10_OneSidedBlocksAddNothing ==
    (/\ parseDone
     /\ \A k \in DOMAIN blocks :
            WellFormed(blocks[k]) \/ blocks[k].kind \in {"qOnly", "aOnly"}
     /\ \E k \in DOMAIN blocks : WellFormed(blocks[k])) =>
        formattedCards = OwnCards(blocks)

(***************************************************************************)
(* The text as the claims about the parser describe it.                    *)
(***************************************************************************)
\* a question marker opens the line that starts after position e
QuestionLineAfter(t, e) ==
    /\ e <= Len(t) /\ t[e] = NL
    /\ \E k \in (e + 1)..Len(t) :
           /\ MarkerAt(t, k, QMark)
           /\ \A j \in (e + 1)..(k - 1) : t[j] \in Whitespace

\* where the text after position p stops: at the next question marker
NextQuestion(t, p) ==
    Min({e \in p..Len(t) : QuestionLineAfter(t, e)} \cup {Len(t) + 1})

\* the newline in front of the marker at f, 0 when the marker opens no line
NewlineBefore(t, f) ==
    LET ns == {n \in 1..(f - 1) : t[n] = NL /\ \A j \in (n + 1)..(f - 1) : t[j] \in Whitespace}
    IN  IF ns = {} THEN 0 ELSE Max(ns)

\* the card of a question marker at i and an answer marker at f
DescribedCard(t, i, f) ==
    [question |-> Trim(SubSeq(t, i + 2, NewlineBefore(t, f) - 1)),
     answer |-> Trim(SubSeq(t, f + 2, NextQuestion(t, f + 2) - 1))]

\* C11: every card of the primary scan has a question marker and, after it,
\* an answer marker that opens a line, such that the card's answer is the
\* text from that answer marker up to the next question marker that opens a
\* line, or up to the end of the text, trimmed, and its question is the text
\* between the question marker and the newline in front of the answer marker.
C11_CardIsTheTextBetweenItsMarkers ==
    (parseDone /\ ~fallbackRan) =>
        \A k \in DOMAIN formattedCards :
            \E i, f \in 1..Len(textResponse) :
                /\ i < f
                /\ MarkerAt(textResponse, i, QMark)
                /\ MarkerAt(textResponse, f, AMark)
                /\ NewlineBefore(textResponse, f) > i
                /\ formattedCards[k] = DescribedCard(textResponse, i, f)

\* C12: the fallback ran exactly when the while loop left no card, and when
\* the loop left cards they are the result, whatever the fallback would have
\* read in the text.
C12_FallbackOnlyAfterAnEmptyScan ==
    parseDone =>
        /\ fallbackRan <=> (primaryCards = <<>>)
        /\ primaryCards # <<>> => formattedCards = primaryCards

C12_Witness ==
    /\ parseDone /\ ~fallbackRan
    /\ blocks = <<Pair(ContentX, ContentY), AnswerFirst(ContentX, ContentY)>>
    /\ Len(formattedCards) = 1
    /\ Len(FallbackScan(FilterBoolean(SplitFrom(textResponse, 1)))) = 2

RECURSIVE Lines(_)
Lines(s) ==
    LET ns == {n \in 1..Len(s) : s[n] = NL}
    IN  IF ns = {} THEN <<s>>
        ELSE <<SubSeq(s, 1, Min(ns) - 1)>> \o Lines(SubSeq(s, Min(ns) + 1, Len(s)))

HasMarker(line, m) == \E i \in 1..Len(line) : MarkerAt(line, i, m)

\* what follows the first marker m of the line, trimmed
LineContent(line, m) ==
    Trim(SubSeq(line, Min({i \in 1..Len(line) : MarkerAt(line, i, m)}) + 2, Len(line)))

\* the card of a block: the contents of its first question-marker line and of
\* its first answer-marker line, when it has both lines and neither is empty
DescribedBlockCard(block) ==
    LET ls == Lines(block)
        qs == {k \in DOMAIN ls : HasMarker(ls[k], QMark)}
        as == {k \in DOMAIN ls : HasMarker(ls[k], AMark)}
    IN  IF qs = {} \/ as = {} THEN <<>>
        ELSE LET q == LineContent(ls[Min(qs)], QMark)
                 a == LineContent(ls[Min(as)], AMark)
             IN  IF q = <<>> \/ a = <<>> THEN <<>>
                 ELSE <<[question |-> q, answer |-> a]>>

RECURSIVE DescribedBlockCards(_)
DescribedBlockCards(bs) ==
    IF bs = <<>> THEN <<>>
    ELSE DescribedBlockCard(RenderBlock(Head(bs))) \o DescribedBlockCards(Tail(bs))

\* C13: when the fallback ran on a text of blocks joined by blank lines, the
\* cards are, block by block, at most one card per block: the content of the
\* block's question-marker line and the content of its answer-marker line,
\* and no card for a block that lacks one of the lines or where one of the
\* two contents trims to empty.
C13_FallbackReadsEachBlockByItsLines ==
    (parseDone /\ fallbackRan /\ \A k \in DOMAIN blocks : blocks[k].kind # "raw") =>
        formattedCards = DescribedBlockCards(blocks)

\* C14: every card the parser returns has a question and an answer that are
\* not empty and neither start nor end with whitespace.
C14_CardsAreTrimmedAndNonEmpty ==
    parseDone =>
        \A k \in DOMAIN formattedCards :
            LET card == formattedCards[k]
            IN  /\ card.question # <<>> /\ card.answer # <<>>
                /\ card.question[1] \notin Whitespace
                /\ card.question[Len(card.question)] \notin Whitespace
                /\ card.answer[1] \notin Whitespace
                /\ card.answer[Len(card.answer)] \notin Whitespace

C14_Witness ==
    /\ parseDone
    /\ blocks = <<Pair(ContentX, ContentY), Pair(ContentX, ContentBlank)>>
    /\ formattedCards = <<[question |-> <<"x">>, answer |-> <<"y">>]>>

\* C15: every prompt handed to the external service asks for a number of
\* cards that is a positive number: 5 when the body had no num_questions,
\* the body's value otherwise.
C15_CountIsPositive ==
    \A i \in Reqs :
        \A k \in DOMAIN srv[i].sent :
            LET n == srv[i].sent[k].num_questions
            IN  /\ n.type = "number" /\ n.value > 0
                /\ n = IF srv[i].body.num_questions = Undefined
                       THEN Num(5) ELSE srv[i].body.num_questions

\* C16: an invocation of generateAICards that is done and holds no card has
\* set an error message and no success message.
C16_NoCardsIsAFailure ==
    \A i \in Reqs :
        (cli[i].pc = "done" /\ cli[i].aiGeneratedCards = <<>>) =>
            /\ cli[i].errorMessage # ""
            /\ cli[i].successMessage = ""

\* C17: whatever the other requests did in between, two requests with the
\* same body that are at the same point and got the same reply from the
\* external service have sent the same prompts and the same responses.
C17_RequestsDoNotInterfere ==
    \A i, j \in Reqs :
        (/\ srv[i].body = srv[j].body
         /\ srv[i].pc = srv[j].pc
         /\ srv[i].reply = srv[j].reply) =>
            srv[i] = srv[j]

C17_Witness ==
    \E i, j \in Reqs :
        /\ i # j
        /\ srv[i].pc = "done" /\ srv[j].pc = "done"
        /\ srv[i].body = srv[j].body
        /\ srv[i].reply.given /\ srv[i].reply.text = ReplyTwoPairs
        /\ srv[j].reply = srv[i].reply
        /\ srv[j].responses[1].status = 200

NoMarker(t) ==
    \A i \in 1..Len(t) : ~MarkerAt(t, i, QMark) /\ ~MarkerAt(t, i, AMark)

Chars == RawChars \cup {"q", ":", SP, NL, "x", "y"}
Cards == Seq([question : Seq(Chars), answer : Seq(Chars)])

\* C18: a call of the parser ends with a list of cards, whatever the text,
\* and on a text without any marker the while loop leaves no card, the
\* fallback runs and the result is the empty list.
C18_NoMarkerNoCard ==
    parseDone =>
        /\ formattedCards \in Cards
        /\ NoMarker(textResponse) =>
               /\ primaryCards = <<>>
               /\ fallbackRan
               /\ formattedCards = <<>>

C18_Witness ==
    /\ parseDone
    /\ blocks = <<Prose, Prose>>
    /\ fallbackRan
    /\ formattedCards = <<>>

\* C19: a second call of the parser on the same text returns the cards of
\* the first call, with or without a call on another text in between.
C19_SecondParseAgrees == againDone => againCards = formattedCards

C19_Witness ==
    /\ againDone /\ otherDone
    /\ Len(formattedCards) = 2
    /\ againCards = formattedCards

\* C20: while isEditingDeckTitle is true, neither a snapshot of the deck nor
\* the completion of fetchDeckData changes editDeckTitle.
C20_StoreLeavesTheEditedTitleAlone ==
    [][(isEditingDeckTitle /\ (DeckSnapshot \/ FetchDeckDataResolves)) =>
           editDeckTitle' = editDeckTitle]_vars

\* the user that is signed in, if any, is not the owner of the deck
NotTheOwner == currentUserId = NoUser \/ currentUserId # store.ownerId

\* a step sends nothing to the store or to the endpoint, and writes nothing
NoWrite == ops' = ops /\ store' = store /\ cardDocs' = cardDocs

(***************************************************************************)
(* C21: a user who is not the owner of the deck, or nobody signed in,      *)
(* causes no write in DeckEditor: updateDeckTitle, addCollaborator,        *)
(* removeCollaborator, addCard, deleteCard, generateQuestions and          *)
(* addAiGeneratedCards each end with their error message and send neither  *)
(* a write to the store nor a request to the endpoint, and editCard        *)
(* changes no state.                                                       *)
(***************************************************************************)
C21_NotTheOwnerWritesNothing ==
    [][NotTheOwner =>
          /\ updateDeckTitle => NoWrite /\ errorMessage' = MSG_TITLE_OWNER
          /\ addCollaborator => NoWrite /\ errorMessage' = "Only the deck owner can add collaborators."
          /\ (\E email \in collaborators : removeCollaborator(email))
                 => NoWrite /\ errorMessage' = "Only the deck owner can remove collaborators."
          /\ addCard => NoWrite /\ errorMessage' = "Only the deck owner can add or modify cards."
          /\ (\E card \in CardsOf(DeckId) : deleteCard(card.id))
                 => NoWrite /\ errorMessage' = "Only the deck owner can delete cards."
          /\ generateQuestions => NoWrite /\ errorMessage' = "Only the deck owner can generate AI cards."
          /\ addAiGeneratedCards => NoWrite /\ errorMessage' = "Only the deck owner can add AI cards."
          /\ (\E card \in CardsOf(DeckId) : editCard(card)) => UNCHANGED vars]_vars

\* a collaborator has the deck on the page, has called addCard and was refused
C21_Witness ==
    /\ currentUserId = OtherId /\ deck.exists
    /\ errorMessage = "Only the deck owner can add or modify cards."
    /\ ops = <<>> /\ CardsOf(DeckId) = {CardDoc(1, DeckId, "q", "a")}

(***************************************************************************)
(* C23: removeCollaborator removes the given email from the collaborators  *)
(* of the deck and leaves every other collaborator in place, also when a   *)
(* collaborator was added in the store after the list on the page was read *)
(* and before the filtered list is written.                                *)
(***************************************************************************)
C23_RemovalLeavesTheOthers ==
    [][(/\ Len(ops) > 0
        /\ ops[1].kind = "setCollaborators"
        /\ OpResolves(1, <<>>))
           => store'.collaborators = store.collaborators \ {ops[1].email}]_vars

\* the documents of the deck that hold the card
Written(card) ==
    {c \in CardsOf(DeckId) : c.question = card.question /\ c.answer = card.answer}

(***************************************************************************)
(* C26: whatever the clicks on Add These Cards to Deck, one of them made   *)
(* while the commit of another is awaited included, a card of the preview  *)
(* is written to the deck once if the commit succeeds and not at all if it *)
(* fails.                                                                  *)
(***************************************************************************)
C26_PreviewCardWrittenOnce ==
    \A i \in 1..Len(GeneratedCards) : Cardinality(Written(GeneratedCards[i])) <= 1

(***************************************************************************)
(* C24: a failure of the listener of the cards or of the listener of the   *)
(* deck leaves an error message that is set as it is; the message of the   *)
(* listener is stored only if there is none when the failure is delivered. *)
(***************************************************************************)
C24_ListenerFailureKeepsTheMessage ==
    [][((CardsListenerFails \/ DeckListenerFails) /\ errorMessage # "")
           => errorMessage' = errorMessage]_vars

(***************************************************************************)
(* C22: when handleDeleteDeck of the owner has succeeded, no card of the   *)
(* deleted deck is left in the store, also when cards were added to the    *)
(* deck from another session while it ran.                                 *)
(***************************************************************************)
C22_DeletedDeckLeavesNoCard == ~store.exists => CardsOf(DeckId) = {}

(***************************************************************************)
(* C25: isLoading of DeckList is false only after the listener of the      *)
(* owned decks and the listener of the collaborated decks have each        *)
(* delivered a snapshot, or one of them has failed.                        *)
(***************************************************************************)
C25_LoadedAfterBothListeners ==
    ~deckList.isLoading =>
        \/ {"owned", "collaborated"} \subseteq deckList.delivered
        \/ deckList.failed # {}

(***************************************************************************)
(* C27: when a page was added while the question or the answer of a card   *)
(* was written, the cursor stays just below the last line drawn on the new *)
(* page: the Math.max adjustment advances it only when no page was added,  *)
(* never to a position computed from the page before.                      *)
(***************************************************************************)
C27_PageBreakLeavesTheCursor ==
    (pdf.pc \in {"answer", "separator"} /\ pdf.broke)
        => pdf.currentY = pdf.belowLastLine

\* the answers of answeredCards that are recorded as correct
CorrectAnswers(a) == {i \in 1..Len(a) : a[i].correct}

(***************************************************************************)
(* C28: in StudyMode, whatever the answers given, score is the number of   *)
(* answers recorded as correct in answeredCards, currentCardIndex is the   *)
(* number of answers given and at most cards.length, no card is answered   *)
(* twice, and once the cards are loaded the scorecard is shown exactly     *)
(* when currentCardIndex has reached cards.length.                         *)
(***************************************************************************)
C28_ScoreAndIndexFollowTheAnswers ==
    LET a == study.answeredCards
    IN  /\ study.score = Cardinality(CorrectAnswers(a))
        /\ study.currentCardIndex = Len(a)
        /\ study.currentCardIndex <= Len(study.cards)
        /\ \A i, j \in 1..Len(a) : a[i].cardId = a[j].cardId => i = j
        /\ ~study.loading =>
               (ScorecardShown(study) <=> study.currentCardIndex = Len(study.cards))

\* a deck of two cards was answered, one answer correct: the scorecard shows
C28_Witness ==
    /\ Len(study.cards) = 2 /\ study.currentCardIndex = 2
    /\ study.score = 1 /\ ScorecardShown(study)
    /\ study.answeredCards = <<[cardId |-> 1, correct |-> FALSE],
                               [cardId |-> 2, correct |-> TRUE]>>

=============================================================================
